---- MODULE Spec2Model ----
(***************************************************************************)
(* Model of the point-cloud voxelizer: the PLY point store with its k-d    *)
(* tree (src/classes/ply.js), the slice image with its flood fill          *)
(* (src/classes/png.js), and the layer rasterizer (src/index.js and its    *)
(* isotropic twin src/unnamed/part_003), the worker threads                *)
(* (src/unnamed/part_001), the chamferer with its filename order           *)
(* (src/unnamed/part_002), and the PLY header parser.                      *)
(*                                                                         *)
(* Arithmetic is exact: coordinates are integers, a squared distance is an *)
(* integer, a radius is a fraction n/d.  Math.sqrt is not evaluated: the   *)
(* distance a query returns is carried as its radicand (d2, the number     *)
(* handed to Math.sqrt), and "d > R" is decided on the squares.            *)
(***************************************************************************)
EXTENDS Integers, Sequences, FiniteSets, TLC

VARIABLES
    points,     \* PLY.points: 0-based array of Point3D records
    kd,         \* PLY._kdRoot: [root, nodes] built by buildKdTree
    nn,         \* the last nearestPoint call: its arguments and its result
    width,      \* PNG.width
    height,     \* PNG.height
    pixels,     \* PNG.pixels seen through the Uint32Array view: pixel index -> RGBA
    pre,        \* PNG.pixels as they were when the last PNG method was entered
    call,       \* the last PNG method called: its arguments and its return value
    cfg,        \* run's physical settings: X_IN, Y_IN, Z_IN, DPI, LAYER_HEIGHT_NM, ...
    dims,       \* run's width, height, depth
    prev,       \* the settings and dimensions of the run before this one
    at,         \* run's position in the layer loop: [pc, z, column, row]
    files,      \* the slices written so far: z -> pixels of out_{z}.png
    pool,       \* the worker threads: workerData, each worker's loop state, the writes
    inDir,      \* the chamferer's input directory: file name -> decoded slice
    outDir,     \* the chamferer's output directory: file name -> file written
    job,        \* processFolder: its arguments, its position and what it computed
    ply,        \* new PLY(filePath): the header of the file and how construction ended
    probe       \* one evaluation of a pure function: its arguments and its result

nnVars == <<points, kd, nn>>
pngVars == <<width, height, pixels, pre, call>>
runVars == <<cfg, dims, prev, at, files>>
poolVars == <<pool>>
chamferVars == <<inDir, outDir, job>>
extVars == <<poolVars, chamferVars, ply, probe>>
vars == <<nnVars, pngVars, runVars, extVars>>

\* a part of the program that a specification leaves out stays parked
NoPLY == points = <<>> /\ kd = <<>> /\ nn = <<>>
NoPNG == width = 0 /\ height = 0 /\ pixels = <<>> /\ pre = <<>> /\ call = <<>>
NoLoop == at = <<>> /\ files = <<>>
NoRun == cfg = <<>> /\ dims = <<>> /\ prev = <<>> /\ NoLoop
NoPool == pool = <<>>
NoChamfer == inDir = <<>> /\ outDir = <<>> /\ job = <<>>
NoParse == ply = <<>>
NoProbe == probe = <<>>
NoExt == NoPool /\ NoChamfer /\ NoParse /\ NoProbe

(***************************************************************************)
(* Bound of the nearest-neighbour model: the largest cloud.                *)
(***************************************************************************)
MaxPoints == 3

NULL == -1

(***************************************************************************)
(* Fractions n/d (d > 0) and +Infinity, for maxDistance and bestD2.        *)
(***************************************************************************)
Infinity == [inf |-> TRUE, n |-> 0, d |-> 1]
Frac(n, d) == [inf |-> FALSE, n |-> n, d |-> d]
FracSq(f) == IF f.inf THEN Infinity ELSE Frac(f.n * f.n, f.d * f.d)
\* integer a < fraction f
IntLtFrac(a, f) == f.inf \/ a * f.d < f.n
\* fraction f > fraction g, both finite
FracGt(f, g) == f.n * g.d > g.n * f.d

(***************************************************************************)
(* buildKdTree                                                             *)
(***************************************************************************)
coord(p, axis) == IF axis = 0 THEN p.x ELSE IF axis = 1 THEN p.y ELSE p.z

swap(arr, a, b) == [arr EXCEPT ![a] = arr[b], ![b] = arr[a]]

\* the comparison turned round: the greater elements go left of the pivot
GoesLeftWhenGreater(c, pivotVal) == c > pivotVal

\* the comparison of the partition loop: the element goes left of the pivot
GoesLeft(c, pivotVal) == c < pivotVal

RECURSIVE PartitionLoop(_, _, _, _, _, _, _)
PartitionLoop(pts, idxs, i, hi, store, pivotVal, axis) ==
    IF i >= hi THEN [idxs |-> idxs, store |-> store]
    ELSE IF GoesLeft(coord(pts[idxs[i]], axis), pivotVal)
         THEN PartitionLoop(pts, swap(idxs, store, i), i + 1, hi, store + 1,
                            pivotVal, axis)
         ELSE PartitionLoop(pts, idxs, i + 1, hi, store, pivotVal, axis)

partition(pts, idxs, lo, hi, pivotIdx, axis) ==
    LET pivotVal == coord(pts[idxs[pivotIdx]], axis)
        moved == swap(idxs, pivotIdx, hi)
        r == PartitionLoop(pts, moved, lo, hi, lo, pivotVal, axis)
    IN  [idxs |-> swap(r.idxs, r.store, hi), pivot |-> r.store]

RECURSIVE selectK(_, _, _, _, _, _)
selectK(pts, idxs, lo, hi, k, axis) ==
    IF lo < hi
    THEN LET pr == partition(pts, idxs, lo, hi, (lo + hi) \div 2, axis)
         IN  IF k = pr.pivot THEN pr.idxs
             ELSE IF k < pr.pivot
                  THEN selectK(pts, pr.idxs, lo, pr.pivot - 1, k, axis)
                  ELSE selectK(pts, pr.idxs, pr.pivot + 1, hi, k, axis)
    ELSE idxs

\* A node is named by the slot mid of the index array it was taken from (each
\* slot yields exactly one node); nodes maps that name to {p, axis, left, right},
\* p being the index of the point in the store and NULL an absent child.
RECURSIVE build(_, _, _, _, _, _)
build(pts, idxs, nodes, lo, hi, depth) ==
    IF lo > hi THEN [idxs |-> idxs, nodes |-> nodes, root |-> NULL]
    ELSE LET axis == depth % 3
             mid == (lo + hi) \div 2
             sel == selectK(pts, idxs, lo, hi, mid, axis)
             iMid == sel[mid]
             l == build(pts, sel, nodes, lo, mid - 1, depth + 1)
             r == build(pts, l.idxs, l.nodes, mid + 1, hi, depth + 1)
             node == [p |-> iMid, axis |-> axis, left |-> l.root, right |-> r.root]
         IN  [idxs |-> r.idxs, nodes |-> (mid :> node) @@ r.nodes, root |-> mid]

buildKdTree(pts) ==
    LET n == Cardinality(DOMAIN pts)
    IN  IF n = 0 THEN [root |-> NULL, nodes |-> <<>>]
        ELSE LET b == build(pts, [i \in 0 .. n - 1 |-> i], <<>>, 0, n - 1, 0)
             IN  [root |-> b.root, nodes |-> b.nodes]

(***************************************************************************)
(* nearestPoint                                                            *)
(***************************************************************************)
AxesOptions == {"x", "y", "z", "xy", "xz", "yz", "xyz"}

\* maskFromAxes with the masks of "xz" and "yz" exchanged
maskFromAxesSwapped(axes) ==
    CASE axes = "x" -> 1
      [] axes = "y" -> 2
      [] axes = "z" -> 4
      [] axes = "xy" -> 3
      [] axes = "xz" -> 6
      [] axes = "yz" -> 5
      [] OTHER -> 7

maskFromAxes(axes) ==
    CASE axes = "x" -> 1
      [] axes = "y" -> 2
      [] axes = "z" -> 4
      [] axes = "xy" -> 3
      [] axes = "xz" -> 5
      [] axes = "yz" -> 6
      [] OTHER -> 7

\* mask & bit, bit a power of two
And(mask, bit) == IF (mask \div bit) % 2 = 1 THEN bit ELSE 0

\* squared distance of point p to target t over the axes of the mask
MaskedD2(p, t, axesMask) ==
    LET dx == IF And(axesMask, 1) # 0 THEN p.x - t.x ELSE 0
        dy == IF And(axesMask, 2) # 0 THEN p.y - t.y ELSE 0
        dz == IF And(axesMask, 4) # 0 THEN p.z - t.z ELSE 0
    IN  dx * dx + dy * dy + dz * dz

\* "d2 < bestD2": the candidate replaces the best
Improves(d2, bestD2) == IntLtFrac(d2, bestD2)

\* the far child never searched
FarNeverSearched(diff, bestD2) == FALSE

\* "diff * diff < bestD2": the far child is searched
FarSearched(diff, bestD2) == IntLtFrac(diff * diff, bestD2)

Push(stack, n) == IF n # NULL THEN Append(stack, n) ELSE stack

\* the while loop over the traversal stack; visited lists the nodes popped
RECURSIVE NearestLoop(_, _, _, _, _, _, _, _)
NearestLoop(pts, nodes, t, axesMask, stack, best, bestD2, visited) ==
    IF stack = <<>> THEN [best |-> best, bestD2 |-> bestD2, visited |-> visited]
    ELSE
      LET id == stack[Len(stack)]
          rest == SubSeq(stack, 1, Len(stack) - 1)
          node == nodes[id]
          p == pts[node.p]
          d2 == MaskedD2(p, t, axesMask)
          hit == Improves(d2, bestD2)
          nBest == IF hit THEN node.p ELSE best
          nBestD2 == IF hit THEN Frac(d2, 1) ELSE bestD2
          axisBit == 2 ^ node.axis
          diff == IF node.axis = 0 THEN t.x - p.x
                  ELSE IF node.axis = 1 THEN t.y - p.y ELSE t.z - p.z
          near == IF diff < 0 THEN node.left ELSE node.right
          far == IF diff < 0 THEN node.right ELSE node.left
          nStack ==
            IF And(axesMask, axisBit) = 0
            THEN Push(Push(rest, node.left), node.right)
            ELSE LET s1 == Push(rest, near)
                 IN  IF far # NULL /\ FarSearched(diff, nBestD2)
                     THEN Append(s1, far) ELSE s1
      IN  NearestLoop(pts, nodes, t, axesMask, nStack, nBest, nBestD2,
                      Append(visited, id))

\* the starting value of bestD2: maxD * maxD
InitialBestD2(maxD) == FracSq(maxD)

\* opts: [axes, maxDistance, maxDistanceX, maxDistanceY, maxDistanceZ], a
\* distance option being a fraction, or Infinity when the caller leaves it out.
\* The result is {point, distance} with distance carried as d2 (its square),
\* or found = FALSE for null.
nearestPoint(pts, tree, t, opts) ==
    LET axesMask == maskFromAxes(opts.axes)
        maxD == IF ~opts.maxDistance.inf THEN opts.maxDistance ELSE Infinity
    IN  IF tree.root = NULL
        THEN [found |-> FALSE, point |-> NULL, d2 |-> Infinity, visited |-> <<>>]
        ELSE LET r == NearestLoop(pts, tree.nodes, t, axesMask, <<tree.root>>,
                                  NULL, InitialBestD2(maxD), <<>>)
             IN  IF r.best # NULL
                 THEN [found |-> TRUE, point |-> r.best, d2 |-> r.bestD2,
                       visited |-> r.visited]
                 ELSE [found |-> FALSE, point |-> NULL, d2 |-> r.bestD2,
                       visited |-> r.visited]

(***************************************************************************)
(* Nearest-neighbour specification: a PLY constructed over some cloud, then *)
(* nearestPoint calls.                                                      *)
(***************************************************************************)
\* the model's clouds and targets lie on the corners of the unit cube, which
\* gives repeated coordinates on every axis and the squared distances 0..3
Coords == {0, 1}

Point3D(x, y, z, r, g, b) == [x |-> x, y |-> y, z |-> z, r |-> r, g |-> g, b |-> b]

\* clouds of 1..MaxPoints points on the grid; the colour plays no part here
NNClouds ==
    UNION { [0 .. n - 1 -> {Point3D(x, y, z, 0, 0, 0) : x \in Coords, y \in Coords, z \in Coords}]
            : n \in 1 .. MaxPoints }

NoCall == [called |-> FALSE]

Targets == {[x |-> x, y |-> y, z |-> z] : x \in Coords, y \in Coords, z \in Coords}

NoCaps == [maxDistanceX |-> Infinity, maxDistanceY |-> Infinity, maxDistanceZ |-> Infinity]

Opts(axes, maxDistance, cx, cy, cz) ==
    [axes |-> axes, maxDistance |-> maxDistance,
     maxDistanceX |-> cx, maxDistanceY |-> cy, maxDistanceZ |-> cz]

\* the caps queried: 0, 1 and 3/2 (squares 0, 1 and 9/4 against d2 in 0..3)
Caps == {Frac(0, 1), Frac(1, 1), Frac(3, 2)}

\* the option sets queried: each axes value alone, the isotropic cap alone,
\* the per-axis caps alone (as index.js passes them)
QueryOpts ==
    {Opts(a, Infinity, Infinity, Infinity, Infinity) : a \in AxesOptions}
    \cup {Opts("xyz", m, Infinity, Infinity, Infinity) : m \in Caps}
    \cup {Opts("xyz", Infinity, Infinity, Infinity, c) : c \in Caps}
    \cup {Opts("xyz", Infinity, c, c, c) : c \in Caps}

NNInit ==
    /\ NoExt
    /\ points \in NNClouds
    /\ kd = buildKdTree(points)
    /\ nn = NoCall
    /\ NoPNG
    /\ NoRun

\* one call is observed per behaviour: nearestPoint leaves the store and the
\* tree as they are, so a second call starts from the same state as the first
NearestPointCall ==
    \E t \in Targets, o \in QueryOpts :
        /\ ~nn.called
        /\ nn' = [called |-> TRUE, target |-> t, opts |-> o,
                  result |-> nearestPoint(points, kd, t, o)]
        /\ UNCHANGED <<points, kd, pngVars, runVars, extVars>>

NNNext == NearestPointCall

SpecNN == NNInit /\ [][NNNext]_vars

(***************************************************************************)
(* PNG: the slice image (src/classes/png.js)                               *)
(***************************************************************************)
\* Bound of the image model: the largest number of pixels of an image.
MaxPixels == 6

\* A pixel is its four bytes <<r, g, b, a>>: the 32-bit word
\* r | g<<8 | b<<16 | a<<24 of the Uint32Array view, byte by byte.
Word(r, g, b, a) == <<r, g, b, a>>
Transparent == Word(0, 0, 0, 0)
InteriorFill == Word(247, 247, 247, 128)
\* the colours written by the model's callers
Palette == {Transparent, Word(10, 20, 30, 255), InteriorFill}

\* a typed-array read outside the buffer yields undefined
Undefined == <<>>
U32(px, i) == IF i \in DOMAIN px THEN px[i] ELSE Undefined
\* the seed's bytes composed into the target word (undefined | 0 = 0)
SeedWord(px, i0) == IF i0 \in DOMAIN px THEN px[i0] ELSE Transparent

\* new PNG(width, height): every byte 0
NewPixels(w, h) == [i \in 0 .. w * h - 1 |-> Transparent]

\* a clear() that leaves the pixels as they are
ClearedNothing(px) == px

\* clear(): pixels.fill(0)
Cleared(px) == [i \in DOMAIN px |-> Transparent]

\* setPixel(x, y, r, g, b, a)
WithPixel(px, w, x, y, colour) == [px EXCEPT ![y * w + x] = colour]

\* the seed lies outside the image, read at x = width as inside
OutsideImageLax(x, y, w, h) == x < 0 \/ y < 0 \/ x > w \/ y >= h

\* floodFillFrom's first test: the seed lies outside the image
OutsideImage(x, y, w, h) == x < 0 \/ y < 0 \/ x >= w \/ y >= h

\* the west loop bounded by the buffer start instead of the row start
WestContinuesAcrossRows(px, xL, left, target) == left >= 0 /\ U32(px, left) = target

\* "xL >= 0 && u32[left] === target"
WestContinues(px, xL, left, target) == xL >= 0 /\ U32(px, left) = target

\* "xR < this.width && u32[right] === target"
EastContinues(px, w, xR, right, target) == xR < w /\ U32(px, right) = target

\* the east loop forgetting to count
EastFilledForgotten(filled) == filled

\* "filled++" of the east loop
EastFilled(filled) == filled + 1

RECURSIVE ExpandWest(_, _, _, _, _, _)
ExpandWest(px, xL, left, filled, target, fill) ==
    IF WestContinues(px, xL, left, target)
    THEN ExpandWest([px EXCEPT ![left] = fill], xL - 1, left - 1, filled + 1,
                    target, fill)
    ELSE [px |-> px, left |-> left, filled |-> filled]

RECURSIVE ExpandEast(_, _, _, _, _, _, _)
ExpandEast(px, w, xR, right, filled, target, fill) ==
    IF EastContinues(px, w, xR, right, target)
    THEN ExpandEast([px EXCEPT ![right] = fill], w, xR + 1, right + 1,
                    EastFilled(filled), target, fill)
    ELSE [px |-> px, right |-> right, filled |-> filled]

\* "for (xx = start; xx <= end; xx++) if (u32[row + xx % width] === target) push"
RECURSIVE PushSpan(_, _, _, _, _, _, _)
PushSpan(px, w, stack, row, xx, end, target) ==
    IF xx > end THEN stack
    ELSE LET j == row + (xx % w)
         IN  PushSpan(px, w, IF U32(px, j) = target THEN Append(stack, j) ELSE stack,
                      row, xx + 1, end, target)

\* an iteration that leaves an entry it skips on the stack
FillStepKeepsSkipped(st, w, h, target, fill) ==
    LET i == st.stack[Len(st.stack)]
        rest == SubSeq(st.stack, 1, Len(st.stack) - 1)
    IN  IF U32(st.px, i) # target
        THEN st
        ELSE LET yL == i \div w
                 wst == ExpandWest(st.px, i % w, i, st.filled, target, fill)
                 est == ExpandEast(wst.px, w, (i % w) + 1, i + 1, wst.filled,
                                   target, fill)
                 start == wst.left + 1
                 end == est.right - 1
                 above == IF yL > 0
                          THEN PushSpan(est.px, w, rest, (yL - 1) * w, start, end, target)
                          ELSE rest
                 below == IF yL < h - 1
                          THEN PushSpan(est.px, w, above, (yL + 1) * w, start, end, target)
                          ELSE above
             IN  [px |-> est.px, stack |-> below, filled |-> est.filled]

\* one iteration of "while (stack.length)"; st = [px, stack, filled]
FillStep(st, w, h, target, fill) ==
    LET i == st.stack[Len(st.stack)]
        rest == SubSeq(st.stack, 1, Len(st.stack) - 1)
    IN  IF U32(st.px, i) # target
        THEN [px |-> st.px, stack |-> rest, filled |-> st.filled]
        ELSE LET yL == i \div w
                 wst == ExpandWest(st.px, i % w, i, st.filled, target, fill)
                 est == ExpandEast(wst.px, w, (i % w) + 1, i + 1, wst.filled,
                                   target, fill)
                 start == wst.left + 1
                 end == est.right - 1
                 above == IF yL > 0
                          THEN PushSpan(est.px, w, rest, (yL - 1) * w, start, end, target)
                          ELSE rest
                 below == IF yL < h - 1
                          THEN PushSpan(est.px, w, above, (yL + 1) * w, start, end, target)
                          ELSE above
             IN  [px |-> est.px, stack |-> below, filled |-> est.filled]

RECURSIVE FillLoop(_, _, _, _, _)
FillLoop(st, w, h, target, fill) ==
    IF st.stack = <<>> THEN st ELSE FillLoop(FillStep(st, w, h, target, fill), w, h, target, fill)

\* floodFillFrom(x, y, r, g, b, a): the pixels after the call and the value returned
floodFillFrom(px, w, h, x, y, fill) ==
    IF OutsideImage(x, y, w, h) THEN [pixels |-> px, filled |-> 0]
    ELSE LET i0 == y * w + x
             target == SeedWord(px, i0)
         IN  IF target = fill THEN [pixels |-> px, filled |-> 0]
             ELSE LET r == FillLoop([px |-> px, stack |-> <<i0>>, filled |-> 0],
                                    w, h, target, fill)
                  IN  [pixels |-> r.px, filled |-> r.filled]

(***************************************************************************)
(* Image specification: an image of some size is constructed, pixels are   *)
(* set and cleared, then floodFillFrom is called, and called once more     *)
(* with the same arguments.                                                *)
(***************************************************************************)
ImageSizes == {wh \in (1 .. MaxPixels) \X (1 .. MaxPixels) : wh[1] * wh[2] <= MaxPixels}

PNGInit ==
    /\ NoExt
    /\ NoPLY
    /\ NoRun
    /\ \E wh \in ImageSizes :
         /\ width = wh[1]
         /\ height = wh[2]
         /\ pixels = NewPixels(wh[1], wh[2])
    /\ pre = pixels
    /\ call = [op |-> "new"]

Drawing == call.op \in {"new", "setPixel", "clear"}

SetPixel ==
    \E x \in 0 .. width - 1, y \in 0 .. height - 1, colour \in Palette :
        /\ Drawing
        /\ pixels' = WithPixel(pixels, width, x, y, colour)
        /\ pre' = pixels'
        /\ call' = [op |-> "setPixel"]
        /\ UNCHANGED <<width, height, nnVars, runVars, extVars>>

Clear ==
    /\ Drawing
    /\ pixels' = Cleared(pixels)
    /\ pre' = pixels'
    /\ call' = [op |-> "clear"]
    /\ UNCHANGED <<width, height, nnVars, runVars, extVars>>

\* seeds range over the image and the ring of positions just outside it
FloodFillFrom ==
    \E x \in -1 .. width, y \in -1 .. height, fill \in Palette :
        LET r == floodFillFrom(pixels, width, height, x, y, fill)
        IN  /\ Drawing
            /\ pixels' = r.pixels
            /\ pre' = pixels
            /\ call' = [op |-> "floodFillFrom", x |-> x, y |-> y, fill |-> fill,
                        filled |-> r.filled, times |-> 1, first |-> r.filled]
            /\ UNCHANGED <<width, height, nnVars, runVars, extVars>>

\* the same call once more
FloodFillAgain ==
    /\ call.op = "floodFillFrom" /\ call.times = 1
    /\ LET r == floodFillFrom(pixels, width, height, call.x, call.y, call.fill)
       IN  /\ pixels' = r.pixels
           /\ pre' = pixels
           /\ call' = [call EXCEPT !.filled = r.filled, !.times = 2]
    /\ UNCHANGED <<width, height, nnVars, runVars, extVars>>

PNGNext == SetPixel \/ Clear \/ FloodFillFrom \/ FloodFillAgain

SpecPNG == PNGInit /\ [][PNGNext]_vars

(***************************************************************************)
(* run: raster dimensions from the physical settings (src/index.js 73-75,  *)
(* src/unnamed/part_003 65-67)                                             *)
(***************************************************************************)
NM_PER_INCH == 25400000

\* inches are counted in quarters: X_IN = 1.5 is 6, Z_IN = 0.75 is 3
InDen == 4

\* Bounds of the dimension model: the largest size in quarter inches, the
\* largest DPI.
MaxInQ == 6
MaxDpi == 3

\* the layer heights tried, in nanometres: the program's 27,000 and heights
\* that give a handful of layers
LayerHeights == {27000, 6350000, 12700000, 25400000}

\* Math.round of the fraction n/d, d > 0: floor(n/d + 1/2)
Round(n, d) == (2 * n + d) \div (2 * d)

Max(a, b) == IF a >= b THEN a ELSE b

\* zIn * layerHeight / NM_PER_INCH, the ratio upside down
LayersAcrossInverted(zInQ, layerHeightNm) ==
    [n |-> zInQ * layerHeightNm, d |-> InDen * NM_PER_INCH]

\* (zIn * NM_PER_INCH) / LAYER_HEIGHT_NM as a fraction
LayersAcross(zInQ, layerHeightNm) ==
    [n |-> zInQ * NM_PER_INCH, d |-> InDen * layerHeightNm]

\* xIn * DPI as a fraction
DotsAcross(inQ, dpi) == [n |-> inQ * dpi, d |-> InDen]

Dims(c) ==
    [width |-> Max(1, Round(DotsAcross(c.xIn, c.dpi).n, DotsAcross(c.xIn, c.dpi).d)),
     height |-> Max(1, Round(DotsAcross(c.yIn, c.dpi).n, DotsAcross(c.yIn, c.dpi).d)),
     depth |-> Max(1, Round(LayersAcross(c.zIn, c.layerHeightNm).n,
                            LayersAcross(c.zIn, c.layerHeightNm).d))]

(***************************************************************************)
(* Dimension specification: run computes the dimensions for some settings; *)
(* one setting is edited and run computes them again.                      *)
(***************************************************************************)
Settings ==
    [xIn : 0 .. MaxInQ, yIn : 0 .. MaxInQ, zIn : 0 .. MaxInQ,
     dpi : 0 .. MaxDpi, layerHeightNm : LayerHeights]

DimsInit ==
    /\ NoExt
    /\ NoPLY
    /\ NoPNG
    /\ NoLoop
    /\ cfg \in Settings
    /\ dims = Dims(cfg)
    /\ prev = [ran |-> FALSE]

Rerun(c) ==
    /\ ~prev.ran
    /\ prev' = [ran |-> TRUE, cfg |-> cfg, dims |-> dims]
    /\ cfg' = c
    /\ dims' = Dims(c)
    /\ UNCHANGED <<nnVars, pngVars, at, files, extVars>>

DimsNext ==
    \/ \E v \in 0 .. MaxInQ : Rerun([cfg EXCEPT !.xIn = v])
    \/ \E v \in 0 .. MaxInQ : Rerun([cfg EXCEPT !.yIn = v])
    \/ \E v \in 0 .. MaxInQ : Rerun([cfg EXCEPT !.zIn = v])
    \/ \E v \in 0 .. MaxDpi : Rerun([cfg EXCEPT !.dpi = v])
    \/ \E v \in LayerHeights : Rerun([cfg EXCEPT !.layerHeightNm = v])

SpecDims == DimsInit /\ [][DimsNext]_vars

(***************************************************************************)
(* run: the layer rasterizer (src/index.js 39-148, whose nearestPoint call *)
(* passes per-axis caps and paints the sample colour; and its twin         *)
(* src/unnamed/part_003 28-140, whose call passes maxDistance and paints   *)
(* (1,1,1,255)).  cfg.variant says which of the two is running.            *)
(***************************************************************************)
\* Bound of the rasterizer model: the largest cloud.
MaxCloud == 2

RECURSIVE Gcd(_, _)
Gcd(a, b) == IF b = 0 THEN a ELSE Gcd(b, a % b)
\* the fraction n/d in lowest terms
Lowest(n, d) == LET g == Gcd(n, d) IN IF g = 0 THEN Frac(0, 1) ELSE Frac(n \div g, d \div g)

\* #computeBounds
MinOf(S) == CHOOSE m \in S : \A e \in S : m <= e
MaxOf(S) == CHOOSE m \in S : \A e \in S : m >= e
computeBounds(pts) ==
    IF DOMAIN pts = {}
    THEN [min |-> [x |-> 0, y |-> 0, z |-> 0], max |-> [x |-> 0, y |-> 0, z |-> 0]]
    ELSE [min |-> [x |-> MinOf({pts[i].x : i \in DOMAIN pts}),
                   y |-> MinOf({pts[i].y : i \in DOMAIN pts}),
                   z |-> MinOf({pts[i].z : i \in DOMAIN pts})],
          max |-> [x |-> MaxOf({pts[i].x : i \in DOMAIN pts}),
                   y |-> MaxOf({pts[i].y : i \in DOMAIN pts}),
                   z |-> MaxOf({pts[i].z : i \in DOMAIN pts})]]

\* xSize, ySize, zSize (paddingRatio and zPad are 0)
Sizes(pts) ==
    LET b == computeBounds(pts)
    IN  [x |-> b.max.x - b.min.x, y |-> b.max.y - b.min.y, z |-> b.max.z - b.min.z]

\* MODEL_UNITS_PER_INCH: the mean of size / inches over the three axes
ModelUnitsPerInch(pts, c) ==
    LET sz == Sizes(pts)
    IN  Lowest(InDen * (sz.x * c.yIn * c.zIn + sz.y * c.xIn * c.zIn + sz.z * c.xIn * c.yIn),
               3 * c.xIn * c.yIn * c.zIn)

\* VOXEL_RADIUS = VOXEL_RADIUS_INCHES * MODEL_UNITS_PER_INCH; c.vri counts
\* VOXEL_RADIUS_INCHES in thousandths
VoxelRadius(pts, c) ==
    LET m == ModelUnitsPerInch(pts, c) IN Lowest(c.vri * m.n, 1000 * m.d)

\* min + ((index + 0.5) / size) * extent; the clouds of the model have extents
\* that 2 * size divides, so the centre is a whole number
Centre(min, index, size, extent) == min + ((2 * index + 1) * extent) \div (2 * size)

WorldOf(pts, d, column, row, z) ==
    LET b == computeBounds(pts)
        sz == Sizes(pts)
    IN  [x |-> Centre(b.min.x, column, d.width, sz.x),
         y |-> Centre(b.min.y, row, d.height, sz.y),
         z |-> Centre(b.min.z, z, d.depth, sz.z)]

\* the options of run's nearestPoint call
SampleOpts(pts, c) ==
    LET R == VoxelRadius(pts, c)
    IN  IF c.variant = "index"
        THEN Opts("xyz", Infinity, Lowest(4 * R.n, R.d), Lowest(4 * R.n, R.d),
                  Lowest(R.n, 10 * R.d))
        ELSE Opts("xyz", R, Infinity, Infinity, Infinity)

\* the distance test dropped: every hit is painted
NeverTooFar(d2, R) == FALSE

\* "d > VOXEL_RADIUS", d being the root of the fraction d2
TooFar(d2, R) == d2.n * R.d * R.d > R.n * R.n * d2.d

\* the colour of the first point of the store, whichever point was hit
FirstPointColour(pts, c, hit) == Word(pts[0].r, pts[0].g, pts[0].b, 255)

\* the colour run paints a hit with
PaintColour(pts, c, hit) ==
    IF c.variant = "index"
    THEN Word(pts[hit].r, pts[hit].g, pts[hit].b, 255)
    ELSE Word(1, 1, 1, 255)

\* the body of the row loop: the pixels after voxel (column, row) of layer z
Sampled(px, pts, tree, c, d, column, row, z) ==
    LET np == nearestPoint(pts, tree, WorldOf(pts, d, column, row, z), SampleOpts(pts, c))
    IN  IF ~np.found THEN px
        ELSE IF TooFar(np.d2, VoxelRadius(pts, c)) THEN px
        ELSE WithPixel(px, d.width, column, row, PaintColour(pts, c, np.point))

(***************************************************************************)
(* Rasterizer specification: a PLY over some cloud, some settings, then    *)
(* the layer loop of run, one voxel at a time.                             *)
(***************************************************************************)
\* coordinates of the model's clouds: the corners of a cube whose side every
\* 2 * width, 2 * height and 2 * depth of the model divides
GridCoords == {0, 12}

\* the colour of the i-th point of a cloud
PointColours == <<Word(200, 100, 50, 255), Word(20, 40, 60, 255), Word(90, 80, 70, 255),
                  Word(5, 6, 7, 255)>>

ColouredPoint(i, x, y, z) ==
    Point3D(x, y, z, PointColours[(i % 4) + 1][1], PointColours[(i % 4) + 1][2],
            PointColours[(i % 4) + 1][3])

RasterClouds ==
    UNION { {[i \in 0 .. n - 1 |-> ColouredPoint(i, f[i][1], f[i][2], f[i][3])] :
                f \in [0 .. n - 1 -> GridCoords \X GridCoords \X GridCoords]}
            : n \in 1 .. MaxCloud }

\* X_IN = Y_IN = 1.5 and Z_IN = 0.75 as in the program; DPI 1 or 2 and layer
\* heights of an inch or half an inch, for images of 2x2 or 3x3 pixels in 1 or
\* 2 layers; VOXEL_RADIUS_INCHES 0.003 and 0.01 as in the program, and 0.5 and 1
RasterSettings ==
    [variant : {"index", "part003"}, xIn : {6}, yIn : {6}, zIn : {3},
     dpi : {1, 2}, layerHeightNm : {12700000, 25400000}, vri : {3, 10, 500, 1000}]

RasterInit ==
    /\ NoExt
    /\ points \in RasterClouds
    /\ kd = buildKdTree(points)
    /\ nn = NoCall
    /\ cfg \in RasterSettings
    /\ dims = Dims(cfg)
    /\ prev = [ran |-> FALSE]
    /\ width = dims.width
    /\ height = dims.height
    /\ pixels = NewPixels(dims.width, dims.height)
    /\ pre = pixels
    /\ call = [op |-> "new"]
    /\ at = [pc |-> "layer", z |-> 0, column |-> 0, row |-> 0]
    /\ files = <<>>

\* the head of the layer loop: the flood fill from the middle of the image
LayerBegin ==
    /\ at.pc = "layer"
    /\ LET r == floodFillFrom(pixels, width, height, width \div 2, height \div 2,
                              InteriorFill)
       IN  pixels' = r.pixels
    /\ at' = [at EXCEPT !.pc = "sample", !.column = 0, !.row = 0]
    /\ UNCHANGED <<nnVars, width, height, pre, call, cfg, dims, prev, files, extVars>>

\* one pass of the row loop, and the step to the next row, column, or the flush
SampleVoxel ==
    /\ at.pc = "sample"
    /\ pixels' = Sampled(pixels, points, kd, cfg, dims, at.column, at.row, at.z)
    /\ at' = IF at.row + 1 < height THEN [at EXCEPT !.row = at.row + 1]
             ELSE IF at.column + 1 < width
                  THEN [at EXCEPT !.column = at.column + 1, !.row = 0]
                  ELSE [at EXCEPT !.pc = "flush"]
    /\ UNCHANGED <<nnVars, width, height, pre, call, cfg, dims, prev, files, extVars>>

\* image.flush(out_{z}.png); image.clear(); and the step to the next layer
FlushLayer ==
    /\ at.pc = "flush"
    /\ files' = (at.z :> pixels) @@ files
    /\ pixels' = Cleared(pixels)
    /\ at' = IF at.z + 1 < dims.depth
             THEN [at EXCEPT !.pc = "layer", !.z = at.z + 1]
             ELSE [at EXCEPT !.pc = "done", !.z = at.z + 1]
    /\ UNCHANGED <<nnVars, width, height, pre, call, cfg, dims, prev, extVars>>

RasterNext == LayerBegin \/ SampleVoxel \/ FlushLayer

SpecRaster == RasterInit /\ [][RasterNext]_vars

(***************************************************************************)
(* Worker threads (worker.js, src/unnamed/part_001): each worker renders   *)
(* the layers startZ .. endZ - 1 of its workerData with the two-band shell *)
(* and writes out_{z}.png.  A worker has its own PLY and its own image;    *)
(* the disk is what the workers share.  Coordinates are whole hundredths   *)
(* of a model unit, so a squared distance is a whole number of 1/10000.    *)
(***************************************************************************)
MaxWorkers == 2
MaxLayers == 3

Hundredths == 100

\* the literals of "if (d > 0.07) continue" and "if (d > 0.02)"
OuterCut == Frac(7, 100)
InnerCut == Frac(2, 100)

\* the colour of the outer band: setPixel(x, y, 255, 255, 255, 128)
BandColour == Word(255, 255, 255, 128)

\* "d >= cut" in place of "d > cut"
BeyondOrAt(d2, cut) == d2 * cut.d * cut.d >= cut.n * cut.n * Hundredths * Hundredths

\* "d > cut", d being the root of d2 hundredths squared
Beyond(d2, cut) == d2 * cut.d * cut.d > cut.n * cut.n * Hundredths * Hundredths

\* every layer under the one name
OutPathShared(z) == 0

\* `out/out_${z}.png`: one name per layer number, here the number itself
OutPath(z) == z

\* worldX, worldY, zWorld of voxel (x, y, z)
WorkerWorld(data, x, y, z) ==
    [x |-> Centre(data.min.x, x, data.width, data.xSize),
     y |-> Centre(data.min.y, y, data.height, data.ySize),
     z |-> Centre(data.min.z, z, data.depth, data.zSize)]

\* the body of the y loop: what voxel (x, y, z) leaves in its pixel
ShellPixel(old, pts, tree, data, x, y, z) ==
    LET np == nearestPoint(pts, tree, WorkerWorld(data, x, y, z),
                           Opts("xyz", Infinity, Infinity, Infinity, Infinity))
    IN  IF ~np.found THEN old
        ELSE IF Beyond(np.d2.n, OuterCut) THEN old
        ELSE IF Beyond(np.d2.n, InnerCut) THEN BandColour
        ELSE Word(pts[np.point].r, pts[np.point].g, pts[np.point].b, 255)

\* the x and y loops of one layer over the worker's image
RenderLayer(px, pts, tree, data, z) ==
    [i \in DOMAIN px |->
        ShellPixel(px[i], pts, tree, data, i % data.width, i \div data.width, z)]

\* the clouds of the model: one or two points 0, 2 or 7 hundredths off the
\* first voxel centre along x, and 0 or 7 hundredths off along z
WorkerClouds ==
    UNION { {[i \in 0 .. n - 1 |-> ColouredPoint(i, f[i][1], 4, f[i][2])] :
                f \in [0 .. n - 1 -> {4, 6, 11} \X {4, 11}]}
            : n \in 1 .. 2 }

\* images of 1 or 2 pixels in 1 .. MaxLayers layers, voxel centres 8
\* hundredths apart starting at 4
WorkerDatas ==
    {[width |-> w, height |-> 1, depth |-> d, min |-> [x |-> 0, y |-> 0, z |-> 0],
      xSize |-> 8 * w, ySize |-> 8, zSize |-> 8 * d] : w \in 1 .. 2, d \in 1 .. MaxLayers}

\* the ways to cut [0, depth) into n consecutive ranges, empty ones included
Cuts(n, depth) ==
    {c \in [0 .. n -> 0 .. depth] :
        /\ c[0] = 0 /\ c[n] = depth
        /\ \A i \in 0 .. n - 1 : c[i] <= c[i + 1]}

\* a worker at the head of its loop, or past it when its range is empty
NewWorker(startZ, endZ, data) ==
    [startZ |-> startZ, endZ |-> endZ, z |-> startZ,
     pc |-> IF startZ < endZ THEN "render" ELSE "exit",
     image |-> NewPixels(data.width, data.height)]

WorkersInit ==
    /\ NoPNG /\ NoRun /\ NoChamfer /\ NoParse /\ NoProbe
    /\ points \in WorkerClouds
    /\ kd = buildKdTree(points)
    /\ nn = NoCall
    /\ \E data \in WorkerDatas, n \in 1 .. MaxWorkers :
        \E c \in Cuts(n, data.depth) :
            pool = [data |-> data,
                    workers |-> [w \in 1 .. n |-> NewWorker(c[w - 1], c[w], data)],
                    log |-> <<>>]

\* the x and y loops of layer z, up to the flush
WorkerRender(w) ==
    /\ pool.workers[w].pc = "render"
    /\ pool' = [pool EXCEPT
            !.workers[w].image = RenderLayer(@, points, kd, pool.data, pool.workers[w].z),
            !.workers[w].pc = "flush"]
    /\ UNCHANGED <<nnVars, pngVars, runVars, chamferVars, ply, probe>>

\* await image.flush(out_{z}.png); image.clear(); z++ and the loop test
WorkerFlush(w) ==
    /\ pool.workers[w].pc = "flush"
    /\ LET me == pool.workers[w]
       IN  /\ files' = (OutPath(me.z) :> me.image) @@ files
           /\ pool' = [pool EXCEPT
                  !.log = Append(@, [worker |-> w, path |-> OutPath(me.z)]),
                  !.workers[w].image = Cleared(@),
                  !.workers[w].z = @ + 1,
                  !.workers[w].pc = IF me.z + 1 < me.endZ THEN "render" ELSE "exit"]
    /\ UNCHANGED <<nnVars, pngVars, cfg, dims, prev, at, chamferVars, ply, probe>>

\* parentPort.postMessage({ done: true })
WorkerExit(w) ==
    /\ pool.workers[w].pc = "exit"
    /\ pool' = [pool EXCEPT !.workers[w].pc = "done"]
    /\ UNCHANGED <<nnVars, pngVars, runVars, chamferVars, ply, probe>>

WorkersNext ==
    \/ \E w \in DOMAIN pool.workers : WorkerRender(w)
    \/ \E w \in DOMAIN pool.workers : WorkerFlush(w)
    \/ \E w \in DOMAIN pool.workers : WorkerExit(w)

SpecWorkers == WorkersInit /\ [][WorkersNext]_vars

(***************************************************************************)
(* The chamfer predicate (chamfer.js, src/unnamed/part_002).  Lengths are   *)
(* whole numbers of 1/76200 inch: a pixel at 300 dpi is 254 of them and a  *)
(* layer of 27000 nm is 81.  A radius is carried doubled (r.twice) and is  *)
(* 0 or odd, so that no sum of distances equals it and the rounding of the *)
(* distances to Float32 decides no comparison.                             *)
(***************************************************************************)
DPI_XY == 300
LAYER_HEIGHT_NM == 27000
InchUnits == 76200

MaxBoxPx == 2
MaxBoxLayers == 4

\* a radius in inches: NaN, or half of `twice` units
Radius(twice) == [nan |-> FALSE, twice |-> twice]
NaN == [nan |-> TRUE, twice |-> 0]

\* "sum <= r"
LessOrEqual(sum, r) == ~r.nan /\ 2 * sum <= r.twice

\* "sum < r"
Less(sum, r) == ~r.nan /\ 2 * sum < r.twice

\* (z - z0) / layersPerIn with a layer as thick as a pixel is wide
precomputeZInchesPixelPitch(bbox, layers) ==
    [dzB |-> [z \in 0 .. layers - 1 |-> (z - bbox.z0) * (InchUnits \div DPI_XY)],
     dzT |-> [z \in 0 .. layers - 1 |-> (bbox.z1 - z) * (InchUnits \div DPI_XY)]]

\* dzB[z] = (z - z0) / layersPerIn, dzT[z] = (z1 - z) / layersPerIn,
\* layersPerIn = NM_PER_INCH / LAYER_HEIGHT_NM
precomputeZInches(bbox, layers) ==
    [dzB |-> [z \in 0 .. layers - 1 |->
                (z - bbox.z0) * ((InchUnits * LAYER_HEIGHT_NM) \div NM_PER_INCH)],
     dzT |-> [z \in 0 .. layers - 1 |->
                (bbox.z1 - z) * ((InchUnits * LAYER_HEIGHT_NM) \div NM_PER_INCH)]]

\* dxL[x] = (x - x0) / DPI_XY, dxR[x] = (x1 - x) / DPI_XY, and the same for y
precomputeXYInches(bbox, w, h) ==
    [dxL |-> [x \in 0 .. w - 1 |-> (x - bbox.x0) * (InchUnits \div DPI_XY)],
     dxR |-> [x \in 0 .. w - 1 |-> (bbox.x1 - x) * (InchUnits \div DPI_XY)],
     dyT |-> [y \in 0 .. h - 1 |-> (y - bbox.y0) * (InchUnits \div DPI_XY)],
     dyB |-> [y \in 0 .. h - 1 |-> (bbox.y1 - y) * (InchUnits \div DPI_XY)]]

\* the predicate without the edge and the corners at (right, bottom)
shouldChamferLopsided(dxL, dxR, dyT, dyB, dzB, dzT, r) ==
    \/ Less(dxL + dyT, r) \/ Less(dxR + dyT, r) \/ Less(dxL + dyB, r)
    \/ Less(dzT + dxL, r) \/ Less(dzT + dxR, r) \/ Less(dzT + dyT, r) \/ Less(dzT + dyB, r)
    \/ Less(dzB + dxL, r) \/ Less(dzB + dxR, r) \/ Less(dzB + dyT, r) \/ Less(dzB + dyB, r)
    \/ Less(dzT + dxL + dyT, r) \/ Less(dzT + dxR + dyT, r) \/ Less(dzT + dxL + dyB, r)
    \/ Less(dzB + dxL + dyT, r) \/ Less(dzB + dxR + dyT, r) \/ Less(dzB + dxL + dyB, r)

\* the 12 edges, then the 8 vertices
shouldChamfer(dxL, dxR, dyT, dyB, dzB, dzT, r) ==
    \/ Less(dxL + dyT, r) \/ Less(dxR + dyT, r) \/ Less(dxL + dyB, r) \/ Less(dxR + dyB, r)
    \/ Less(dzT + dxL, r) \/ Less(dzT + dxR, r) \/ Less(dzT + dyT, r) \/ Less(dzT + dyB, r)
    \/ Less(dzB + dxL, r) \/ Less(dzB + dxR, r) \/ Less(dzB + dyT, r) \/ Less(dzB + dyB, r)
    \/ Less(dzT + dxL + dyT, r) \/ Less(dzT + dxR + dyT, r)
    \/ Less(dzT + dxL + dyB, r) \/ Less(dzT + dxR + dyB, r)
    \/ Less(dzB + dxL + dyT, r) \/ Less(dzB + dxR + dyT, r)
    \/ Less(dzB + dxL + dyB, r) \/ Less(dzB + dxR + dyB, r)

\* chamferNow of chamferSlice: the predicate at voxel (x, y, z) of a stack
\* of `layers` slices of w x h pixels measured from bbox
chamferNow(bbox, w, h, layers, x, y, z, r) ==
    LET xy == precomputeXYInches(bbox, w, h)
        zz == precomputeZInches(bbox, layers)
    IN  shouldChamfer(xy.dxL[x], xy.dxR[x], xy.dyT[y], xy.dyB[y], zz.dzB[z], zz.dzT[z], r)

(***************************************************************************)
(* Predicate specification: one evaluation of shouldChamfer, either on six *)
(* distances given outright or at a voxel of a box.                        *)
(***************************************************************************)
\* distances of no pixel, one layer, one pixel
ProbeDistances == {0, 81, 254}
ProbeRadii == {Radius(0), Radius(1), Radius(163), Radius(509), Radius(801), Radius(833)}

\* boxes with a corner at the origin, in stacks that end with the box
ProbeBoxes ==
    {[x0 |-> 0, y0 |-> 0, z0 |-> 0, x1 |-> nx, y1 |-> ny, z1 |-> nz] :
        nx \in 0 .. MaxBoxPx, ny \in 0 .. MaxBoxPx, nz \in 0 .. MaxBoxLayers}

ProbeInit ==
    /\ NoPLY /\ NoPNG /\ NoRun /\ NoPool /\ NoChamfer /\ NoParse
    /\ \/ \E a \in [1 .. 6 -> ProbeDistances], r \in ProbeRadii :
            probe = [kind |-> "distances", args |-> a, r |-> r, called |-> FALSE]
       \/ \E b \in ProbeBoxes, r \in ProbeRadii :
            \E x \in b.x0 .. b.x1, y \in b.y0 .. b.y1, z \in b.z0 .. b.z1 :
                probe = [kind |-> "voxel", bbox |-> b, x |-> x, y |-> y, z |-> z,
                         r |-> r, called |-> FALSE]

\* shouldChamfer(dxL, dxR, dyT, dyB, dzB, dzT, r)
ShouldChamferCall ==
    /\ probe.kind = "distances" /\ ~probe.called
    /\ probe' = [probe EXCEPT !.called = TRUE] @@
                [result |-> shouldChamfer(probe.args[1], probe.args[2], probe.args[3],
                                          probe.args[4], probe.args[5], probe.args[6],
                                          probe.r)]
    /\ UNCHANGED <<nnVars, pngVars, runVars, poolVars, chamferVars, ply>>

\* the predicate as chamferSlice evaluates it at one voxel of the box
ChamferNowCall ==
    /\ probe.kind = "voxel" /\ ~probe.called
    /\ probe' = [probe EXCEPT !.called = TRUE] @@
                [result |-> chamferNow(probe.bbox, probe.bbox.x1 + 1, probe.bbox.y1 + 1,
                                       probe.bbox.z1 + 1, probe.x, probe.y, probe.z,
                                       probe.r)]
    /\ UNCHANGED <<nnVars, pngVars, runVars, poolVars, chamferVars, ply>>

ProbeNext == ShouldChamferCall \/ ChamferNowCall

SpecPredicate == ProbeInit /\ [][ProbeNext]_vars

(***************************************************************************)
(* File names and filenameCompare (chamfer.js, src/unnamed/part_002).  A   *)
(* name is a sequence of characters.  Number(chunk) is an IEEE double: a   *)
(* whole number below 2^53 is itself, one from 2^53 up to 2^54 is rounded  *)
(* to the nearest even number, ties to the multiple of 4.  A number is     *)
(* carried as [hi, lo] = hi * 10^8 + lo, which holds up to 16 digits.      *)
(***************************************************************************)
DigitChars == <<"0", "1", "2", "3", "4", "5", "6", "7", "8", "9">>
IsDigit(c) == \E d \in 1 .. 10 : DigitChars[d] = c
DigitValue(c) == (CHOOSE d \in 1 .. 10 : DigitChars[d] = c) - 1

\* String.prototype.toLowerCase on the characters of the model
UpperCase == <<"O", "U", "T", "P", "N", "G">>
LowerCase == <<"o", "u", "t", "p", "n", "g">>
LowerChar(c) ==
    IF \E k \in 1 .. 6 : UpperCase[k] = c
    THEN LowerCase[CHOOSE k \in 1 .. 6 : UpperCase[k] = c]
    ELSE c
toLowerCase(s) == [k \in 1 .. Len(s) |-> LowerChar(s[k])]

\* the length of the first maximal run of digits, or of non-digits, of s
RunLength(s) ==
    CHOOSE k \in 1 .. Len(s) :
        /\ \A i \in 1 .. k : IsDigit(s[i]) = IsDigit(s[1])
        /\ k = Len(s) \/ IsDigit(s[k + 1]) # IsDigit(s[1])

\* s.match(/\d+|\D+/g): the maximal runs, in order
RECURSIVE MatchRuns(_)
MatchRuns(s) ==
    IF s = <<>> THEN <<>>
    ELSE <<SubSeq(s, 1, RunLength(s))>> \o MatchRuns(SubSeq(s, RunLength(s) + 1, Len(s)))

\* s.toLowerCase().match(/\d+|\D+/g) || [s.toLowerCase()]
Chunks(s) == IF s = <<>> THEN << <<>> >> ELSE MatchRuns(toLowerCase(s))

\* no chunk taken for a number: every pair of chunks goes to localeCompare
IsNumericNever(chunk) == FALSE

\* /^\d+$/.test(chunk)
IsNumeric(chunk) == chunk # <<>> /\ \A i \in 1 .. Len(chunk) : IsDigit(chunk[i])

\* the whole number a run of at most 16 digits writes, as [hi, lo]
RECURSIVE DigitsValue(_, _)
DigitsValue(chunk, acc) ==
    IF chunk = <<>> THEN acc
    ELSE LET wide == acc.lo * 10 + DigitValue(Head(chunk))
         IN  DigitsValue(Tail(chunk),
                         [hi |-> acc.hi * 10 + wide \div 100000000,
                          lo |-> wide % 100000000])
Whole(chunk) == DigitsValue(chunk, [hi |-> 0, lo |-> 0])

BigLess(a, b) == a.hi < b.hi \/ (a.hi = b.hi /\ a.lo < b.lo)

\* 2^53 = 9007199254740992
TwoTo53 == [hi |-> 90071992, lo |-> 54740992]

\* Number(chunk): the double nearest to the whole number
Number(chunk) ==
    LET n == Whole(chunk)
    IN  IF BigLess(n, TwoTo53) \/ n.lo % 2 = 0 THEN n
        ELSE IF n.lo % 4 = 1 THEN [n EXCEPT !.lo = n.lo - 1]
        ELSE IF n.lo + 1 = 100000000 THEN [hi |-> n.hi + 1, lo |-> 0]
        ELSE [n EXCEPT !.lo = n.lo + 1]

\* the model's characters in the order of the root collation
Collation == <<"_", ".", "0", "1", "2", "3", "4", "5", "6", "7", "8", "9",
               "a", "e", "g", "n", "o", "p", "s", "t", "u", "x">>
Weight(c) == CHOOSE k \in 1 .. Len(Collation) : Collation[k] = c

\* as.localeCompare(bs): negative, zero or positive
RECURSIVE localeCompare(_, _)
localeCompare(as, bs) ==
    IF as = <<>> /\ bs = <<>> THEN 0
    ELSE IF as = <<>> THEN -1
    ELSE IF bs = <<>> THEN 1
    ELSE IF Weight(Head(as)) < Weight(Head(bs)) THEN -1
    ELSE IF Weight(Head(as)) > Weight(Head(bs)) THEN 1
    ELSE localeCompare(Tail(as), Tail(bs))

\* ax[i] ?? ""
ChunkAt(ax, i) == IF i <= Len(ax) THEN ax[i] ELSE <<>>

\* the loop of filenameCompare from chunk i on; the sign of what it returns
RECURSIVE CompareFrom(_, _, _)
CompareFrom(ax, bx, i) ==
    IF i > Max(Len(ax), Len(bx)) THEN 0
    ELSE LET as == ChunkAt(ax, i)
             bs == ChunkAt(bx, i)
             diff == IF IsNumeric(as) /\ IsNumeric(bs)
                     THEN IF BigLess(Number(as), Number(bs)) THEN -1
                          ELSE IF BigLess(Number(bs), Number(as)) THEN 1
                          ELSE 0
                     ELSE localeCompare(as, bs)
         IN  IF diff # 0 THEN diff ELSE CompareFrom(ax, bx, i + 1)

filenameCompare(a, b) == CompareFrom(Chunks(a), Chunks(b), 1)

\* /\.png$/i.test(f)
isPng(f) ==
    /\ Len(f) >= 4
    /\ toLowerCase(SubSeq(f, Len(f) - 3, Len(f))) = <<".", "p", "n", "g">>

(***************************************************************************)
(* Comparator specification: one call of filenameCompare on two names.     *)
(***************************************************************************)
\* `out_${z}.png`, z given by its decimal digits
OutName(digits) == <<"o", "u", "t", "_">> \o digits \o <<".", "p", "n", "g">>

\* layer numbers of one, two, three and sixteen digits, around 2^53 too
LayerDigits ==
    {<<"0">>, <<"1">>, <<"2">>, <<"9">>, <<"1", "0">>, <<"1", "1">>, <<"1", "0", "0">>,
     <<"9", "0", "0", "7", "1", "9", "9", "2", "5", "4", "7", "4", "0", "9", "9", "1">>,
     <<"9", "0", "0", "7", "1", "9", "9", "2", "5", "4", "7", "4", "0", "9", "9", "2">>,
     <<"9", "0", "0", "7", "1", "9", "9", "2", "5", "4", "7", "4", "0", "9", "9", "3">>,
     <<"9", "0", "0", "7", "1", "9", "9", "2", "5", "4", "7", "4", "0", "9", "9", "4">>}

CompareNames ==
    {OutName(d) : d \in LayerDigits}
        \cup {<<"O", "U", "T", "_", "2", ".", "P", "N", "G">>,
              <<"o", "u", "t", ".", "p", "n", "g">>,
              <<"n", "o", "t", "e", "s", ".", "t", "x", "t">>}

CompareInit ==
    /\ NoPLY /\ NoPNG /\ NoRun /\ NoPool /\ NoChamfer /\ NoParse
    /\ \E a, b \in CompareNames :
        probe = [kind |-> "compare", a |-> a, b |-> b, called |-> FALSE]

\* filenameCompare(a, b)
FilenameCompareCall ==
    /\ probe.kind = "compare" /\ ~probe.called
    /\ probe' = [probe EXCEPT !.called = TRUE] @@
                [result |-> filenameCompare(probe.a, probe.b)]
    /\ UNCHANGED <<nnVars, pngVars, runVars, poolVars, chamferVars, ply>>

CompareNext == FilenameCompareCall

SpecCompare == CompareInit /\ [][CompareNext]_vars

(***************************************************************************)
(* The chamferer (chamfer.js, src/unnamed/part_002): processFolder over a  *)
(* directory of slices.  A file is [enc, width, height, data]: the pixels  *)
(* it decodes to and the encoder that wrote its bytes, png.js's stored     *)
(* deflate ("zlibNoCompression") or sharp's png at compressionLevel 9      *)
(* ("compressionLevel9"); two files hold the same bytes when both agree.   *)
(***************************************************************************)
MaxSlices == 3
MaxVoxels == 4

\* Infinity of "let x0 = Infinity", above every column and row
PosInf == 1000000

\* "a > 0" met by opaque pixels only
IsMaterialOpaqueOnly(word) == word[4] = 255

\* "a > 0": any nonzero alpha is material
IsMaterial(word) == word[4] > 0

\* the file as readRgba decodes it: RGBA data with its width and height
readRgba(file) == [data |-> file.data, width |-> file.width, height |-> file.height]

\* the columns and the rows of the material pixels of one slice
MaterialColumns(img) ==
    {i % img.width : i \in {j \in DOMAIN img.data : IsMaterial(img.data[j])}}
MaterialRows(img) ==
    {i \div img.width : i \in {j \in DOMAIN img.data : IsMaterial(img.data[j])}}

\* the loop of computeGlobalBBox from slice zi on; acc carries x0, y0, x1,
\* y1, z0, z1, expectedW, expectedH and whether a mismatch was thrown
RECURSIVE BBoxLoop(_, _, _, _)
BBoxLoop(dir, names, zi, acc) ==
    IF zi >= Len(names) THEN acc
    ELSE LET img == readRgba(dir[names[zi + 1]])
             expW == IF acc.expectedW = NULL THEN img.width ELSE acc.expectedW
             expH == IF acc.expectedH = NULL THEN img.height ELSE acc.expectedH
             cols == MaterialColumns(img)
             rows == MaterialRows(img)
             any == cols # {}
         IN  IF img.width # expW \/ img.height # expH
             THEN [acc EXCEPT !.thrown = TRUE]
             ELSE BBoxLoop(dir, names, zi + 1,
                    [acc EXCEPT
                        !.expectedW = expW, !.expectedH = expH,
                        !.x0 = IF any /\ MinOf(cols) < @ THEN MinOf(cols) ELSE @,
                        !.x1 = IF any /\ MaxOf(cols) > @ THEN MaxOf(cols) ELSE @,
                        !.y0 = IF any /\ MinOf(rows) < @ THEN MinOf(rows) ELSE @,
                        !.y1 = IF any /\ MaxOf(rows) > @ THEN MaxOf(rows) ELSE @,
                        !.z1 = IF any THEN Max(@, zi) ELSE @])

\* Pass 1: [thrown], or [null] when no pixel is material, or the box
computeGlobalBBox(dir, names) ==
    LET r == BBoxLoop(dir, names, 0,
                      [x0 |-> PosInf, y0 |-> PosInf, z0 |-> 0,
                       x1 |-> -1, y1 |-> -1, z1 |-> Len(names) - 1,
                       expectedW |-> NULL, expectedH |-> NULL, thrown |-> FALSE])
    IN  IF r.thrown THEN [thrown |-> TRUE, null |-> FALSE]
        ELSE IF ~(r.x1 >= r.x0 /\ r.y1 >= r.y0) THEN [thrown |-> FALSE, null |-> TRUE]
        ELSE [thrown |-> FALSE, null |-> FALSE,
              x0 |-> r.x0, y0 |-> r.y0, x1 |-> r.x1, y1 |-> r.y1, z0 |-> r.z0, z1 |-> r.z1,
              width |-> r.expectedW, height |-> r.expectedH]

Sign(n) == IF n > 0 THEN 1 ELSE IF n < 0 THEN -1 ELSE 0

\* shouldChamfer at pixel (x, y) with the z distances of the slice
ChamferAt(xy, zB, zT, x, y, r) ==
    shouldChamfer(xy.dxL[x], xy.dxR[x], xy.dyT[y], xy.dyB[y], zB, zT, r)

\* the four directions of pickMaterialNeighbor, in its order
NeighborDirs(x, y, bbox) ==
    << <<Sign(bbox.x0 + bbox.x1 - 2 * x), 0>>, <<0, Sign(bbox.y0 + bbox.y1 - 2 * y)>>,
       <<-Sign(bbox.x0 + bbox.x1 - 2 * x), 0>>, <<0, -Sign(bbox.y0 + bbox.y1 - 2 * y)>> >>

\* the first direction whose neighbour is in the image and not chamfered:
\* the neighbour's pixel index, or NULL
RECURSIVE PickFrom(_, _, _, _, _, _, _, _, _, _)
PickFrom(dirs, k, x, y, zB, zT, xy, r, w, h) ==
    IF k > Len(dirs) THEN NULL
    ELSE LET nx == x + dirs[k][1]
             ny == y + dirs[k][2]
         IN  IF nx < 0 \/ nx >= w \/ ny < 0 \/ ny >= h
             THEN PickFrom(dirs, k + 1, x, y, zB, zT, xy, r, w, h)
             ELSE IF ~ChamferAt(xy, zB, zT, nx, ny, r) THEN ny * w + nx
             ELSE PickFrom(dirs, k + 1, x, y, zB, zT, xy, r, w, h)

pickMaterialNeighbor(x, y, zB, zT, xy, r, bbox, w, h) ==
    PickFrom(NeighborDirs(x, y, bbox), 1, x, y, zB, zT, xy, r, w, h)

NullMask == <<>>
Black == Word(0, 0, 0, 255)

\* the debug overlay of one chamfered voxel: out with the mark, if one is drawn
DebugOverlay(out, x, y, zB, zT, xy, r, bbox, w, h, prevChamferMask) ==
    LET leftChamfer == IF x > 0 THEN ChamferAt(xy, zB, zT, x - 1, y, r) ELSE TRUE
        rightChamfer == IF x + 1 < w THEN ChamferAt(xy, zB, zT, x + 1, y, r) ELSE TRUE
        upChamfer == IF y > 0 THEN ChamferAt(xy, zB, zT, x, y - 1, r) ELSE TRUE
        downChamfer == IF y + 1 < h THEN ChamferAt(xy, zB, zT, x, y + 1, r) ELSE TRUE
        neighborDiff == ~(leftChamfer /\ rightChamfer /\ upChamfer /\ downChamfer)
        wasChamfer == IF prevChamferMask # NullMask
                      THEN prevChamferMask[y * w + x] = 1 ELSE FALSE
        zTransition == ~wasChamfer
        neighbor == pickMaterialNeighbor(x, y, zB, zT, xy, r, bbox, w, h)
    IN  IF (neighborDiff \/ zTransition) /\ neighbor # NULL
        THEN [out EXCEPT ![neighbor] = Black]
        ELSE out

\* the body of the x loop with the carved voxel zeroed in all four bytes
ChamferVoxelBlanked(st, x, y, zB, zT, xy, r, bbox, w, h, debug, prevChamferMask) ==
    LET i == y * w + x
    IN  IF st.out[i][4] = 0 THEN st
        ELSE IF ~ChamferAt(xy, zB, zT, x, y, r) THEN st
        ELSE [out |-> [st.out EXCEPT ![i] = Transparent],
              mask |-> [st.mask EXCEPT ![i] = 1]]

\* the body of the x loop at voxel (x, y): st carries out and thisChamferMask
ChamferVoxel(st, x, y, zB, zT, xy, r, bbox, w, h, debug, prevChamferMask) ==
    LET i == y * w + x
    IN  IF st.out[i][4] = 0 THEN st
        ELSE IF ~ChamferAt(xy, zB, zT, x, y, r) THEN st
        ELSE LET marked == IF debug
                           THEN DebugOverlay(st.out, x, y, zB, zT, xy, r, bbox, w, h,
                                             prevChamferMask)
                           ELSE st.out
             IN  [out |-> [marked EXCEPT ![i][4] = 0],
                  mask |-> [st.mask EXCEPT ![i] = 1]]

\* the y and x loops over the box, from its k-th voxel in row order on
RECURSIVE ChamferLoop(_, _, _, _, _, _, _, _, _, _, _)
ChamferLoop(st, k, zB, zT, xy, r, bbox, w, h, debug, prevChamferMask) ==
    LET bw == bbox.x1 - bbox.x0 + 1
        bh == bbox.y1 - bbox.y0 + 1
    IN  IF k >= bw * bh THEN st
        ELSE ChamferLoop(
                ChamferVoxel(st, bbox.x0 + (k % bw), bbox.y0 + (k \div bw), zB, zT, xy, r,
                             bbox, w, h, debug, prevChamferMask),
                k + 1, zB, zT, xy, r, bbox, w, h, debug, prevChamferMask)

\* chamferSlice up to the write: the pixels of the output and the mask
chamferSlice(file, zIndex, bbox, xy, zz, r, debug, prevChamferMask) ==
    LET img == readRgba(file)
    IN  ChamferLoop([out |-> img.data,
                     mask |-> [i \in 0 .. img.width * img.height - 1 |-> 0]],
                    0, zz.dzB[zIndex], zz.dzT[zIndex], xy, r, bbox,
                    img.width, img.height, debug, prevChamferMask)

\* the names taken in descending order
RECURSIVE SortNamesDescending(_)
SortNamesDescending(S) ==
    IF S = {} THEN <<>>
    ELSE LET first == CHOOSE n \in S : \A m \in S : filenameCompare(n, m) >= 0
         IN  <<first>> \o SortNamesDescending(S \ {first})

\* names.sort(filenameCompare) of a set of names no two of which compare equal
RECURSIVE SortNames(_)
SortNames(S) ==
    IF S = {} THEN <<>>
    ELSE LET first == CHOOSE n \in S : \A m \in S : filenameCompare(n, m) <= 0
         IN  <<first>> \o SortNames(S \ {first})

\* the radius test with Number.isFinite left out
InvalidRadiusNegativeOnly(r) == ~r.nan /\ r.twice < 0

\* !Number.isFinite(radiusInches) || radiusInches < 0
InvalidRadius(r) == r.nan \/ r.twice < 0

(***************************************************************************)
(* Chamferer specification: a directory of slices, a radius, a debug flag, *)
(* then processFolder: the checks, Pass 1, and the copy or Pass 2.         *)
(***************************************************************************)
\* `${z}`: the decimal digits of z
RECURSIVE Decimal(_)
Decimal(n) ==
    IF n < 10 THEN <<DigitChars[n + 1]>>
    ELSE Decimal(n \div 10) \o <<DigitChars[(n % 10) + 1]>>

\* the k-th slice of a directory is out_{8 + k}.png, so that the numeric
\* order of the names (8, 9, 10, 11) is not their order as strings
SliceName(k) == OutName(Decimal(8 + k))
NotesName == <<"n", "o", "t", "e", "s", ".", "t", "x", "t">>

Encoders == {"zlibNoCompression", "compressionLevel9"}
ChamferPalette == {Transparent, InteriorFill, Word(200, 100, 50, 255)}
ChamferRadii == {NaN, Radius(-1), Radius(0), Radius(1), Radius(163), Radius(509)}

\* stacks of up to MaxSlices slices and MaxVoxels voxels
StackShapes ==
    {s \in (1 .. 3) \X (1 .. 2) \X (1 .. MaxSlices) : s[1] * s[2] * s[3] <= MaxVoxels}

File(enc, w, h, data) == [enc |-> enc, width |-> w, height |-> h, data |-> data]

\* a file that is not a PNG slice
NotesFile == [enc |-> "text", width |-> 0, height |-> 0, data |-> <<>>]

\* a directory: notes.txt and the slices out_8.png, out_9.png, ... in order
Directory(slices) ==
    [name \in {NotesName} \cup {SliceName(k) : k \in 0 .. Len(slices) - 1} |->
        IF name = NotesName THEN NotesFile
        ELSE slices[(CHOOSE k \in 0 .. Len(slices) - 1 : SliceName(k) = name) + 1]]

Solid(w, h) == [i \in 0 .. w * h - 1 |-> Word(200, 100, 50, 255)]

\* an opaque slice with pixel i transparent
Hollow(w, h, i) == [Solid(w, h) EXCEPT ![i] = Transparent]

\* the directories of the model: no slice at all; the slices of a stack in
\* every colouring; a stack of opaque slices one of which is a column wider
\* than the others; and opaque blocks of 3 x 1 and 3 x 3 pixels in 3 slices,
\* which have voxels off every edge; and the 3 x 3 block with its centre
\* column of voxels transparent
InputDirs ==
    {Directory(<<>>)}
    \cup
    UNION { {Directory([k \in 1 .. s[3] |-> File(enc, s[1], s[2], datas[k])]) :
                datas \in [1 .. s[3] -> [0 .. s[1] * s[2] - 1 -> ChamferPalette]],
                enc \in Encoders}
            : s \in StackShapes }
    \cup
    UNION { {Directory([k \in 1 .. s[3] |->
                IF k = odd
                THEN File("zlibNoCompression", s[1] + 1, s[2], Solid(s[1] + 1, s[2]))
                ELSE File("zlibNoCompression", s[1], s[2], Solid(s[1], s[2]))]) :
                odd \in 1 .. s[3]}
            : s \in {t \in StackShapes : t[3] >= 2} }
    \cup
    {Directory([k \in 1 .. 3 |-> File("zlibNoCompression", 3, h, Solid(3, h))]) : h \in {1, 3}}
    \cup
    {Directory([k \in 1 .. 3 |-> File("zlibNoCompression", 3, 3, Hollow(3, 3, 4))])}

\* "const bbox" before Pass 1 has returned, and the null Pass 1 may return
NoBBox == [thrown |-> FALSE, null |-> TRUE]

ChamferInit ==
    /\ NoPLY /\ NoPNG /\ NoRun /\ NoPool /\ NoParse /\ NoProbe
    /\ inDir \in InputDirs
    /\ outDir = <<>>
    /\ \E r \in ChamferRadii, debug \in BOOLEAN :
        job = [radiusInches |-> r, debug |-> debug, pc |-> "start", names |-> <<>>,
               bbox |-> NoBBox, zi |-> 0, prevChamferMask |-> NullMask, error |-> "",
               copied |-> {}]

\* processFolder up to Pass 1: the radius test, readdir, filter, sort
ProcessFolderStart ==
    /\ job.pc = "start"
    /\ LET names == SortNames({n \in DOMAIN inDir : isPng(n)})
       IN  job' = IF InvalidRadius(job.radiusInches)
                  THEN [job EXCEPT !.pc = "failed", !.error = "InvalidRadius"]
                  ELSE IF Len(names) = 0
                  THEN [job EXCEPT !.pc = "failed", !.error = "NoPNGInputs", !.names = names]
                  ELSE [job EXCEPT !.pc = "pass1", !.names = names]
    /\ UNCHANGED <<nnVars, pngVars, runVars, poolVars, inDir, outDir, ply, probe>>

\* Pass 1, and the branch on its result
ComputeGlobalBBox ==
    /\ job.pc = "pass1"
    /\ LET bbox == computeGlobalBBox(inDir, job.names)
       IN  job' = IF bbox.thrown
                  THEN [job EXCEPT !.pc = "failed", !.error = "DimensionMismatch"]
                  ELSE IF bbox.null THEN [job EXCEPT !.pc = "copy"]
                  ELSE [job EXCEPT !.pc = "pass2", !.bbox = bbox, !.zi = 0,
                                   !.prevChamferMask = NullMask]
    /\ UNCHANGED <<nnVars, pngVars, runVars, poolVars, inDir, outDir, ply, probe>>

\* one fs.copyFile of the Promise.all, in any order; the return after the last
CopyFile(n) ==
    /\ job.pc = "copy"
    /\ n \notin job.copied
    /\ outDir' = (n :> inDir[n]) @@ outDir
    /\ job' = [job EXCEPT !.copied = @ \cup {n},
                          !.pc = IF job.copied \cup {n} = {job.names[k] : k \in DOMAIN job.names}
                                 THEN "done" ELSE "copy"]
    /\ UNCHANGED <<nnVars, pngVars, runVars, poolVars, inDir, ply, probe>>

\* one pass of the Pass 2 loop: chamferSlice of slice zi and its write
ChamferSlice ==
    /\ job.pc = "pass2"
    /\ LET name == job.names[job.zi + 1]
           img == readRgba(inDir[name])
           xy == precomputeXYInches(job.bbox, job.bbox.width, job.bbox.height)
           zz == precomputeZInches(job.bbox, Len(job.names))
           r == chamferSlice(inDir[name], job.zi, job.bbox, xy, zz, job.radiusInches,
                             job.debug, job.prevChamferMask)
       IN  /\ outDir' = (name :> File("compressionLevel9", img.width, img.height, r.out))
                            @@ outDir
           /\ job' = [job EXCEPT !.prevChamferMask = r.mask, !.zi = @ + 1,
                                 !.pc = IF job.zi + 1 < Len(job.names) THEN "pass2"
                                        ELSE "done"]
    /\ UNCHANGED <<nnVars, pngVars, runVars, poolVars, inDir, ply, probe>>

ChamferNext ==
    \/ ProcessFolderStart
    \/ ComputeGlobalBBox
    \/ \E n \in DOMAIN inDir : isPng(n) /\ CopyFile(n)
    \/ ChamferSlice

SpecChamfer == ChamferInit /\ [][ChamferNext]_vars

(***************************************************************************)
(* PLY ingestion (src/classes/ply.js 10-90 and 251-301).  A file is its     *)
(* header, line by line, and the number of vertex records its body holds:  *)
(* magic says whether the first line is "ply", end whether end_header       *)
(* occurs, format is the keyword of the format line ("" when there is no   *)
(* format line), lines are the header lines between the format line and    *)
(* end_header.  The count of an element line is kept as the characters     *)
(* parseInt receives (<<>> when the line has no third word).               *)
(***************************************************************************)
MaxVertices == 2

Element(name, countStr) ==
    [kind |-> "element", name |-> name, type |-> "", count |-> countStr]
Property(type, name) ==
    [kind |-> "property", name |-> name, type |-> type, count |-> <<>>]
Comment == [kind |-> "comment", name |-> "", type |-> "", count |-> <<>>]

RECURSIVE LeadingDigits(_)
LeadingDigits(s) ==
    IF s = <<>> \/ ~IsDigit(Head(s)) THEN 0 ELSE 1 + LeadingDigits(Tail(s))

parseInt(str) ==
    LET neg == str # <<>> /\ Head(str) = "-"
        digits == IF neg THEN Tail(str) ELSE str
        n == LeadingDigits(digits)
    IN  IF n = 0 THEN [nan |-> TRUE, value |-> 0]
        ELSE [nan |-> FALSE,
              value |-> (IF neg THEN -1 ELSE 1)
                            * Whole(SubSeq(digits, 1, n)).lo]

NoVertex == [null |-> TRUE, count |-> [nan |-> TRUE, value |-> 0],
             properties |-> <<>>]
NoHeader == [format |-> "", vertex |-> NoVertex]

RECURSIVE VertexProperties(_, _, _)
VertexProperties(headerLines, i, properties) ==
    IF i <= Len(headerLines) /\ headerLines[i].kind = "property"
    THEN IF headerLines[i].type = "list"
         THEN VertexProperties(headerLines, i + 1, properties)
         ELSE VertexProperties(headerLines, i + 1,
                  Append(properties, [name |-> headerLines[i].name,
                                      type |-> headerLines[i].type]))
    ELSE [i |-> i, properties |-> properties]

RECURSIVE HeaderLoop(_, _, _)
HeaderLoop(headerLines, i, vertex) ==
    IF i > Len(headerLines) THEN vertex
    ELSE IF /\ headerLines[i].kind = "element"
            /\ headerLines[i].name = "vertex"
         THEN LET got == VertexProperties(headerLines, i + 1, <<>>)
              IN  HeaderLoop(headerLines, got.i,
                      [null |-> FALSE,
                       count |-> parseInt(headerLines[i].count),
                       properties |-> got.properties])
         ELSE HeaderLoop(headerLines, i + 1, vertex)

HeaderError(message) ==
    [thrown |-> TRUE, error |-> message, header |-> NoHeader]

parseHeader(buf) ==
    IF ~buf.end THEN HeaderError("Invalid PLY: missing end_header.")
    ELSE IF ~buf.magic THEN HeaderError("Not a PLY file.")
    ELSE IF buf.format = "" THEN HeaderError("Missing format line.")
    ELSE [thrown |-> FALSE, error |-> "",
          header |-> [format |-> buf.format,
                      vertex |-> HeaderLoop(buf.lines, 1, NoVertex)]]

findIndex(props, name) ==
    IF \E k \in 1 .. Len(props) : props[k].name = name
    THEN (CHOOSE k \in 1 .. Len(props) :
              /\ props[k].name = name
              /\ \A j \in 1 .. k - 1 : props[j].name # name) - 1
    ELSE -1

CountNotPositive(count) == ~count.nan /\ count.value <= 0

\* The checks of the constructor, lines 13-30: "" when all pass.
HeaderCheck(header) ==
    IF header.format # "ascii" /\ header.format # "binary_little_endian"
    THEN "Unsupported PLY format"
    ELSE IF header.vertex.null \/ CountNotPositive(header.vertex.count)
    THEN "PLY has no vertex element."
    ELSE IF \E c \in {"x", "y", "z"} :
                findIndex(header.vertex.properties, c) < 0
    THEN "PLY vertex must include x,y,z."
    ELSE ""

\* The records the vertex loop can read: text.trim().split of an empty body
\* is one empty line, which parses to a point of NaN coordinates; a binary
\* body holds its whole records and a read past them is a RangeError.
Readable(format, body) ==
    IF format = "ascii" /\ body = 0 THEN 1 ELSE body

\* i < count of the vertex loops (lines 49 and 65), false for a NaN count.
BelowCount(i, count) == ~count.nan /\ i < count.value

(***************************************************************************)
(* Ingestion specification: new PLY(filePath) over some file, one step for *)
(* parseHeader, one for the checks, one per vertex read, one for the       *)
(* bounds and the k-d tree.                                                *)
(***************************************************************************)
Formats == {"", "ascii", "binary_little_endian", "binary_big_endian"}

CountStrs ==
    {Decimal(n) : n \in 0 .. MaxVertices} \cup {<<>>, <<"-", "1">>, <<"x">>}

Coordinates == {"x", "y", "z"}

PropertyRuns ==
    { <<>> } \cup
    { <<Property("float", a)>> : a \in Coordinates } \cup
    { <<Property("float", a), Property("float", b)>> :
          a \in Coordinates, b \in Coordinates } \cup
    { <<Property("float", a), Property("float", b), Property("double", c)>> :
          a \in Coordinates, b \in Coordinates, c \in Coordinates } \cup
    { <<Property("list", "x"), Property("float", "y"), Property("float", "z")>>,
      <<Property("float", "x"), Comment, Property("float", "y"),
        Property("float", "z")>>,
      <<Property("float", "x"), Property("float", "y"),
        Property("float", "z"), Property("uchar", "red")>> }

FaceElement == <<Element("face", <<"1">>), Property("list", "vertex_indices")>>

HeaderLineRuns ==
    { <<Element("vertex", c)>> \o run : c \in CountStrs, run \in PropertyRuns }
    \cup { FaceElement \o <<Element("vertex", c)>> \o run \o FaceElement :
               c \in CountStrs, run \in {<<>>} }
    \cup { <<Element("vertex", c)>>
               \o <<Property("float", "x"), Property("float", "y"),
                    Property("float", "z")>> \o FaceElement :
               c \in CountStrs }
    \cup { <<>>,
           <<Element("face", <<"1">>), Property("float", "x"),
             Property("float", "y"), Property("float", "z")>> }

PlyFiles ==
    { [magic |-> m, end |-> e, format |-> f, lines |-> l, body |-> b] :
          m \in BOOLEAN, e \in BOOLEAN, f \in Formats,
          l \in HeaderLineRuns, b \in 0 .. MaxVertices }

ParseInit ==
    /\ NoPLY /\ NoPNG /\ NoRun /\ NoPool /\ NoChamfer /\ NoProbe
    /\ \E f \in PlyFiles :
           ply = [file |-> f, pc |-> "parseHeader", header |-> NoHeader,
                  error |-> "", points |-> <<>>, kdRoot |-> "none"]

ParseHeader ==
    /\ ply.pc = "parseHeader"
    /\ LET got == parseHeader(ply.file)
       IN  ply' = IF got.thrown
                  THEN [ply EXCEPT !.pc = "thrown", !.error = got.error]
                  ELSE [ply EXCEPT !.pc = "check", !.header = got.header]
    /\ UNCHANGED <<nnVars, pngVars, runVars, poolVars, chamferVars, probe>>

CheckHeader ==
    /\ ply.pc = "check"
    /\ LET message == HeaderCheck(ply.header)
       IN  ply' = IF message # ""
                  THEN [ply EXCEPT !.pc = "thrown", !.error = message]
                  ELSE [ply EXCEPT !.pc = "read"]
    /\ UNCHANGED <<nnVars, pngVars, runVars, poolVars, chamferVars, probe>>

ReadVertex ==
    /\ ply.pc = "read"
    /\ BelowCount(Len(ply.points), ply.header.vertex.count)
    /\ LET i == Len(ply.points)
       IN  ply' = IF i < Readable(ply.header.format, ply.file.body)
                  THEN [ply EXCEPT !.points =
                            Append(@, [record |-> i,
                                       blank |-> i >= ply.file.body])]
                  ELSE [ply EXCEPT !.pc = "thrown",
                                   !.error = IF ply.header.format = "ascii"
                                             THEN "TypeError"
                                             ELSE "RangeError"]
    /\ UNCHANGED <<nnVars, pngVars, runVars, poolVars, chamferVars, probe>>

BuildIndex ==
    /\ ply.pc = "read"
    /\ ~BelowCount(Len(ply.points), ply.header.vertex.count)
    /\ ply' = [ply EXCEPT !.pc = "constructed",
                          !.kdRoot = IF ply.points = <<>> THEN "null"
                                     ELSE "tree"]
    /\ UNCHANGED <<nnVars, pngVars, runVars, poolVars, chamferVars, probe>>

ParseNext == ParseHeader \/ CheckHeader \/ ReadVertex \/ BuildIndex

SpecParse == ParseInit /\ [][ParseNext]_vars

(***************************************************************************)
(* PNG.flush and its zlib writer (src/classes/png.js 189-246).  The        *)
(* scanline data is carried by its length and a stored block's payload by  *)
(* the range [from, to) of the scanline data that raw.subarray took, so    *)
(* that images of more than 65535 bytes can be written.                    *)
(***************************************************************************)
MaxBlocks == 3

\* Math.min(remaining, 65535)
StoredMax == 65535

\* writeUInt16LE(n): the two bytes, low byte first
UInt16LE(n) == <<n % 256, (n \div 256) % 256>>

\* ~n & 0xffff, bit by bit over the low 16 bits
RECURSIVE NotBits(_, _)
NotBits(n, bits) ==
    IF bits = 0 THEN 0
    ELSE (1 - (n % 2)) + 2 * NotBits(n \div 2, bits - 1)
Not16(n) == NotBits(n, 16)

\* BFINAL set on every block
bfinalAlways(off, blockSize, rawLength) == 1

\* off + blockSize >= raw.length ? 1 : 0
bfinal(off, blockSize, rawLength) == IF off + blockSize >= rawLength THEN 1 ELSE 0

\* one pass of the loop of #zlibNoCompression at offset off
StoredBlockAt(off, rawLength) ==
    LET remaining == rawLength - off
        blockSize == IF remaining < StoredMax THEN remaining ELSE StoredMax
    IN  [header |-> bfinal(off, blockSize, rawLength),
         lenLE |-> UInt16LE(blockSize),
         nlenLE |-> UInt16LE(Not16(blockSize)),
         from |-> off, to |-> off + blockSize]

\* the length of the scanline data: per row a filter byte and the stride
ScanlinesLength(w, h) == h * (1 + w * 4)

(***************************************************************************)
(* Writer specification: flush of an image of some size, one step for the  *)
(* scanlines, one per stored block, one for the trailer.  The sizes are    *)
(* small images and images whose scanline data is at, just under and just  *)
(* over a whole number of full blocks (65535 = 15 * 4369 = 13107 * 5).     *)
(***************************************************************************)
FlushSizes ==
    {<<w, h>> : w \in 1 .. 2, h \in 1 .. 3}
    \cup {<<1092, 15 * k + j>> : k \in 1 .. MaxBlocks, j \in {-1, 0, 1}}
    \cup {<<1, 13107 * k + j>> : k \in 1 .. MaxBlocks, j \in {-1, 0, 1}}

FlushInit ==
    /\ NoPLY /\ NoPNG /\ NoRun /\ NoPool /\ NoChamfer /\ NoParse
    /\ \E s \in FlushSizes :
           probe = [kind |-> "flush", width |-> s[1], height |-> s[2],
                    pc |-> "scanlines", rawLength |-> 0, off |-> 0,
                    blocks |-> <<>>, zlibHeader |-> <<>>, adler |-> ""]

BuildScanlines ==
    /\ probe.kind = "flush" /\ probe.pc = "scanlines"
    /\ probe' = [probe EXCEPT !.pc = "blocks",
                              !.rawLength = ScanlinesLength(probe.width, probe.height),
                              !.zlibHeader = <<120, 1>>]
    /\ UNCHANGED <<nnVars, pngVars, runVars, poolVars, chamferVars, ply>>

StoredBlock ==
    /\ probe.kind = "flush" /\ probe.pc = "blocks"
    /\ probe.off < probe.rawLength
    /\ LET block == StoredBlockAt(probe.off, probe.rawLength)
       IN  probe' = [probe EXCEPT !.blocks = Append(@, block), !.off = block.to]
    /\ UNCHANGED <<nnVars, pngVars, runVars, poolVars, chamferVars, ply>>

FinishStream ==
    /\ probe.kind = "flush" /\ probe.pc = "blocks"
    /\ ~(probe.off < probe.rawLength)
    /\ probe' = [probe EXCEPT !.pc = "written", !.adler = "adler32(raw)"]
    /\ UNCHANGED <<nnVars, pngVars, runVars, poolVars, chamferVars, ply>>

FlushNext == BuildScanlines \/ StoredBlock \/ FinishStream

SpecFlush == FlushInit /\ [][FlushNext]_vars

(***************************************************************************)
(* Fill specification: one call of floodFillFrom on an image of two        *)
(* colours, one step for its tests and the seed, one per pass of           *)
(* "while (stack.length)", one for the return.  The call is synchronous    *)
(* code, so a step that can be taken is taken (weak fairness).             *)
(***************************************************************************)
FillInit ==
    /\ NoExt /\ NoPLY /\ NoRun
    /\ \E wh \in ImageSizes :
         /\ width = wh[1]
         /\ height = wh[2]
         /\ pixels \in [0 .. wh[1] * wh[2] - 1 -> {Transparent, InteriorFill}]
         /\ \E x \in -1 .. wh[1], y \in 0 .. wh[2] - 1, fill \in Palette :
                call = [op |-> "called", x |-> x, y |-> y, fill |-> fill,
                        target |-> Undefined, stack |-> <<>>, filled |-> 0]
    /\ pre = pixels

\* lines 104-125: the tests that return 0, and the stack with the seed
FillBegin ==
    /\ call.op = "called"
    /\ call' = IF OutsideImage(call.x, call.y, width, height)
               THEN [call EXCEPT !.op = "returned"]
               ELSE LET i0 == call.y * width + call.x
                        target == SeedWord(pixels, i0)
                    IN  IF target = call.fill
                        THEN [call EXCEPT !.op = "returned", !.target = target]
                        ELSE [call EXCEPT !.op = "loop", !.target = target,
                                          !.stack = <<i0>>]
    /\ UNCHANGED <<width, height, pixels, pre, nnVars, runVars, extVars>>

\* one pass of "while (stack.length)"
FillIterate ==
    /\ call.op = "loop" /\ call.stack # <<>>
    /\ LET st == FillStep([px |-> pixels, stack |-> call.stack, filled |-> call.filled],
                          width, height, call.target, call.fill)
       IN  /\ pixels' = st.px
           /\ call' = [call EXCEPT !.stack = st.stack, !.filled = st.filled]
    /\ UNCHANGED <<width, height, pre, nnVars, runVars, extVars>>

\* "return filled" once the stack is empty
FillReturn ==
    /\ call.op = "loop" /\ call.stack = <<>>
    /\ call' = [call EXCEPT !.op = "returned"]
    /\ UNCHANGED <<width, height, pixels, pre, nnVars, runVars, extVars>>

FillNext == FillBegin \/ FillIterate \/ FillReturn

SpecFill == FillInit /\ [][FillNext]_vars
SpecFillFair == SpecFill /\ WF_vars(FillNext)

(***************************************************************************)
(* Claims about nearestPoint                                               *)
(***************************************************************************)
\* the linear scan: the least squared distance over the axes in `active`
\* (0 = x, 1 = y, 2 = z), written without the mask
AxisSq(p, t, a) == (coord(p, a) - coord(t, a)) * (coord(p, a) - coord(t, a))
ScanD2(p, t, active) ==
    (IF 0 \in active THEN AxisSq(p, t, 0) ELSE 0)
    + (IF 1 \in active THEN AxisSq(p, t, 1) ELSE 0)
    + (IF 2 \in active THEN AxisSq(p, t, 2) ELSE 0)
ScanMin(pts, t, active) ==
    LET ds == {ScanD2(pts[i], t, active) : i \in DOMAIN pts}
    IN  CHOOSE m \in ds : \A e \in ds : m <= e
ActiveAxes(axes) ==
    {a \in {0, 1, 2} :
        \/ a = 0 /\ axes \in {"x", "xy", "xz", "xyz"}
        \/ a = 1 /\ axes \in {"y", "xy", "yz", "xyz"}
        \/ a = 2 /\ axes \in {"z", "xz", "yz", "xyz"}}
AllAxes == {0, 1, 2}
DefaultOpts == Opts("xyz", Infinity, Infinity, Infinity, Infinity)
HasCaps(o) == ~o.maxDistanceX.inf \/ ~o.maxDistanceY.inf \/ ~o.maxDistanceZ.inf
\* some two points of the store share a coordinate on some axis
HasDuplicateCoord ==
    \E i, j \in DOMAIN points, a \in AllAxes :
        i # j /\ coord(points[i], a) = coord(points[j], a)

\* C1: with default options on a non-empty cloud, nearestPoint returns a point
\* whose squared distance to the target is the minimum a linear scan over all
\* points finds, and reports that distance.
C1_NearestEqualsLinearScan ==
    (nn.called /\ nn.opts = DefaultOpts) =>
        /\ nn.result.found
        /\ ScanD2(points[nn.result.point], nn.target, AllAxes)
             = ScanMin(points, nn.target, AllAxes)
        /\ nn.result.d2 = Frac(ScanMin(points, nn.target, AllAxes), 1)

\* C1 witness: a full cloud with a repeated coordinate, queried with default
\* options, where the traversal pruned a far child and found a point away
\* from the target.
C1_Witness ==
    /\ nn.called /\ nn.opts = DefaultOpts
    /\ Cardinality(DOMAIN points) = MaxPoints
    /\ HasDuplicateCoord
    /\ Len(nn.result.visited) < MaxPoints
    /\ nn.result.found /\ nn.result.d2.n > 0

\* C2: the isotropic cap is inclusive: a point is returned exactly when some
\* point lies at distance <= maxDistance, and the one returned is a nearest one.
C2_IsotropicCapInclusive ==
    (nn.called /\ ~nn.opts.maxDistance.inf) =>
        LET m == ScanMin(points, nn.target, AllAxes)
            cap2 == FracSq(nn.opts.maxDistance)
        IN  /\ nn.result.found <=> (m * cap2.d <= cap2.n)
            /\ nn.result.found =>
                 ScanD2(points[nn.result.point], nn.target, AllAxes) = m

\* C3: with per-axis caps, the point returned is within every cap on its axis,
\* and nothing is returned when no point is within all caps.
WithinCap(delta, cap) == cap.inf \/ delta * delta * cap.d * cap.d <= cap.n * cap.n
Eligible(p, t, o) ==
    /\ WithinCap(p.x - t.x, o.maxDistanceX)
    /\ WithinCap(p.y - t.y, o.maxDistanceY)
    /\ WithinCap(p.z - t.z, o.maxDistanceZ)
C3_PerAxisCapsRespected ==
    (nn.called /\ HasCaps(nn.opts)) =>
        /\ nn.result.found => Eligible(points[nn.result.point], nn.target, nn.opts)
        /\ (~\E i \in DOMAIN points : Eligible(points[i], nn.target, nn.opts))
             => ~nn.result.found

\* C4: for every axes option (no cap), nearestPoint returns a point that
\* minimises the squared distance summed over the active axes only, and the
\* distance returned is the square root of that sum for the returned point.
C4_MaskedDistanceMinimal ==
    (nn.called /\ nn.opts.maxDistance.inf /\ ~HasCaps(nn.opts)) =>
        LET act == ActiveAxes(nn.opts.axes)
        IN  /\ nn.result.found
            /\ ScanD2(points[nn.result.point], nn.target, act)
                 = ScanMin(points, nn.target, act)
            /\ nn.result.d2
                 = Frac(ScanD2(points[nn.result.point], nn.target, act), 1)

\* C4 witness: a query over two axes whose nearest point under the mask is not
\* a nearest point over all three axes.
C4_Witness ==
    /\ nn.called /\ nn.opts.axes \in {"xy", "xz", "yz"}
    /\ nn.result.found
    /\ nn.result.d2.n > 0
    /\ ScanD2(points[nn.result.point], nn.target, AllAxes)
         > ScanMin(points, nn.target, AllAxes)

(***************************************************************************)
(* Claims about floodFillFrom                                              *)
(***************************************************************************)
Abs(n) == IF n < 0 THEN -n ELSE n
\* pixels i and j touch along an edge (not across a row end, not diagonally)
Adjacent4(i, j, w) ==
    Abs((i % w) - (j % w)) + Abs((i \div w) - (j \div w)) = 1
\* the pixels reachable from S through 4-adjacent pixels that hold `target`
RECURSIVE Reach4(_, _, _, _)
Reach4(S, px, w, target) ==
    LET T == S \cup {j \in DOMAIN px :
                        px[j] = target /\ \E i \in S : Adjacent4(i, j, w)}
    IN  IF T = S THEN S ELSE Reach4(T, px, w, target)
SeedIndex == call.y * width + call.x
\* the 4-connected component of the seed in the image the call was given
SeedComponent == Reach4({SeedIndex}, pre, width, pre[SeedIndex])
FillCalled == call.op = "floodFillFrom"
SeedInside == ~(call.x < 0 \/ call.y < 0 \/ call.x >= width \/ call.y >= height)
Changed == {i \in DOMAIN pre : pixels[i] # pre[i]}

\* C5: for an in-image seed whose colour differs from the fill colour,
\* floodFillFrom sets exactly the 4-connected component of the seed (among the
\* pixels equal to the seed's colour) to the fill colour and leaves every other
\* pixel as it was.
C5_FillsExactlySeedComponent ==
    (FillCalled /\ call.times = 1 /\ SeedInside /\ pre[SeedIndex] # call.fill) =>
        \A i \in DOMAIN pre :
            pixels[i] = IF i \in SeedComponent THEN call.fill ELSE pre[i]

\* C5 witness: a fill over at least two rows that left alone a pixel of the
\* seed's colour sitting diagonally to a filled pixel, and another just across
\* a row end from a filled pixel.
C5_Witness ==
    /\ FillCalled /\ call.times = 1 /\ SeedInside /\ pre[SeedIndex] # call.fill
    /\ height >= 2 /\ Cardinality(SeedComponent) >= 2
    /\ \E i \in SeedComponent, j \in DOMAIN pre \ SeedComponent :
          /\ pre[j] = pre[SeedIndex]
          /\ Abs((i % width) - (j % width)) = 1
          /\ Abs((i \div width) - (j \div width)) = 1
    /\ \E i \in SeedComponent, j \in DOMAIN pre \ SeedComponent :
          /\ pre[j] = pre[SeedIndex]
          /\ Abs(i - j) = 1
          /\ (i \div width) # (j \div width)

\* C6: the value floodFillFrom returns is the number of pixels whose RGBA
\* differs between the image before and the image after the call.
C6_ReturnCountsChangedPixels ==
    FillCalled => call.filled = Cardinality(Changed)

\* C6 witness: an all-transparent image of at least 2x2 pixels filled whole
\* from an inner seed.
C6_Witness ==
    /\ FillCalled /\ call.times = 1
    /\ width >= 2 /\ height >= 2
    /\ \A i \in DOMAIN pre : pre[i] = Transparent
    /\ call.filled = width * height
    /\ call.fill = Word(10, 20, 30, 255)

\* C7: floodFillFrom changes nothing and returns 0 when the seed is outside
\* the image or already has the fill colour; and a second call with the same
\* arguments changes nothing and returns 0.
C7_NoOpCases ==
    (FillCalled /\ (~SeedInside \/ pre[SeedIndex] = call.fill \/ call.times = 2))
        => (pixels = pre /\ call.filled = 0)

\* C7 witness: the second of two equal calls, the first of which filled
\* several pixels.
C7_Witness ==
    /\ FillCalled /\ call.times = 2 /\ call.first >= 2
    /\ pixels = pre /\ call.filled = 0

(***************************************************************************)
(* Claims about the raster dimensions                                      *)
(***************************************************************************)
\* settings a are no larger than settings b: every size and the DPI are <=,
\* the layer height is >=
NoLarger(a, b) ==
    /\ a.xIn <= b.xIn /\ a.yIn <= b.yIn /\ a.zIn <= b.zIn
    /\ a.dpi <= b.dpi
    /\ a.layerHeightNm >= b.layerHeightNm

\* C8: W, H and D are non-decreasing in x_in, y_in, z_in and dpi and
\* non-increasing in layer_height_nm: raising one of the former, or lowering the
\* latter, never lowers W, H or D.
C8_DimsMonotone ==
    (prev.ran /\ NoLarger(prev.cfg, cfg)) =>
        /\ prev.dims.width <= dims.width
        /\ prev.dims.height <= dims.height
        /\ prev.dims.depth <= dims.depth

\* C8 witness: a run after the layer height was lowered, with more layers than
\* the run before, which had more than the floor of one layer.
C8_Witness ==
    /\ prev.ran
    /\ cfg.layerHeightNm < prev.cfg.layerHeightNm
    /\ prev.dims.depth > 1
    /\ dims.depth > prev.dims.depth
    /\ dims.width > 1

(***************************************************************************)
(* Claims about the rasterizer                                             *)
(***************************************************************************)
\* some point of the cloud lies within the voxel radius of the centre of voxel
\* (column, row, z): squared distance <= radius squared
PointWithinRadius(i, column, row, z) ==
    LET R == VoxelRadius(points, cfg)
    IN  ScanD2(points[i], WorldOf(points, dims, column, row, z), AllAxes) * R.d * R.d
          <= R.n * R.n
NoPointWithinRadius(column, row, z) ==
    \A i \in DOMAIN points : ~PointWithinRadius(i, column, row, z)
Voxels == {v \in (0 .. width - 1) \X (0 .. height - 1) \X DOMAIN files : TRUE}
PixelOf(v) == files[v[3]][v[2] * width + v[1]]
Alpha(w) == w[4]
RGB(w) == <<w[1], w[2], w[3]>>

\* C9 as stated: in every slice written, a pixel with no point of the cloud
\* within the voxel radius of its voxel centre is transparent (alpha 0).
C9_EmptyVoxelTransparent ==
    \A v \in Voxels :
        NoPointWithinRadius(v[1], v[2], v[3]) => Alpha(PixelOf(v)) = 0

\* C9 as amended: in every slice written, a pixel with no point of the cloud
\* within the voxel radius of its voxel centre is left as the flood fill at
\* the head of the layer made it, (247,247,247,128): no sample is painted on it.
C9_EmptyVoxelKeepsInteriorFill ==
    \A v \in Voxels :
        NoPointWithinRadius(v[1], v[2], v[3]) => PixelOf(v) = InteriorFill

\* C9 witness: both layers written, the second with a pixel that has no point
\* within the radius and a pixel that was painted.
C9_Witness ==
    /\ at.pc = "done" /\ dims.depth = 2
    /\ \E v \in Voxels : v[3] = 1 /\ NoPointWithinRadius(v[1], v[2], v[3])
    /\ \E v \in Voxels : v[3] = 1 /\ Alpha(PixelOf(v)) = 255

\* C10: under the colour-by-sample policy (index.js), every opaque pixel of a
\* slice written has the RGB of some point of the cloud that lies within the
\* voxel radius of the pixel's voxel centre.
C10_OpaquePixelHasNearbySampleColour ==
    cfg.variant = "index" =>
        \A v \in Voxels :
            Alpha(PixelOf(v)) = 255 =>
                \E i \in DOMAIN points :
                    /\ PointWithinRadius(i, v[1], v[2], v[3])
                    /\ RGB(PixelOf(v)) = <<points[i].r, points[i].g, points[i].b>>

\* C10 witness: a slice written by index.js from a cloud of two points on which
\* one pixel carries the colour of the second point, another the colour of the
\* first, and a third was not painted.
C10_Witness ==
    /\ cfg.variant = "index" /\ Cardinality(DOMAIN points) = 2
    /\ \E v \in Voxels : PixelOf(v) = PointColours[2]
    /\ \E v \in Voxels : PixelOf(v) = PointColours[1]
    /\ \E v \in Voxels : Alpha(PixelOf(v)) # 255

(***************************************************************************)
(* Claims about the worker threads                                         *)
(***************************************************************************)
\* the voxels of the slices on disk, the pixel of one, and the least squared
\* distance (in hundredths squared) from its centre to the cloud, by linear scan
WorkerVoxels ==
    {v \in (0 .. pool.data.width - 1) \X (0 .. pool.data.height - 1) \X (0 .. pool.data.depth - 1) :
        OutPath(v[3]) \in DOMAIN files}
WorkerPixel(v) == files[OutPath(v[3])][v[2] * pool.data.width + v[1]]
WorkerD2(v) == ScanMin(points, WorkerWorld(pool.data, v[1], v[2], v[3]), AllAxes)
\* d <= 0.02 and d <= 0.07
WithinInner(d2) == d2 * 100 * 100 <= 2 * 2 * 100 * 100
WithinOuter(d2) == d2 * 100 * 100 <= 7 * 7 * 100 * 100
\* the pixel carries the colour of a nearest point of the cloud, opaque
IsSampleColour(v) ==
    \E i \in DOMAIN points :
        /\ ScanD2(points[i], WorkerWorld(pool.data, v[1], v[2], v[3]), AllAxes) = WorkerD2(v)
        /\ WorkerPixel(v) = Word(points[i].r, points[i].g, points[i].b, 255)
ShellWithBand(band) ==
    \A v \in WorkerVoxels :
        /\ ~WithinOuter(WorkerD2(v)) => WorkerPixel(v) = Transparent
        /\ (WithinOuter(WorkerD2(v)) /\ ~WithinInner(WorkerD2(v))) => WorkerPixel(v) = band
        /\ WithinInner(WorkerD2(v)) => IsSampleColour(v)
        /\ WorkerPixel(v) = band => (WithinOuter(WorkerD2(v)) /\ ~WithinInner(WorkerD2(v)))
        /\ Alpha(WorkerPixel(v)) = 255 => WithinInner(WorkerD2(v))

\* C11 as stated: in every slice a worker wrote, with d the distance from the
\* voxel centre to the nearest point, the pixel is transparent if d > 0.07,
\* (247,247,247,128) if 0.02 < d <= 0.07, and the sample's colour with alpha
\* 255 if d <= 0.02.
C11_TwoBandShellGray == ShellWithBand(Word(247, 247, 247, 128))

\* C11 as amended: the same with the band painted (255,255,255,128), the
\* colour worker.js paints it; every pixel of that colour has 0.02 < d <= 0.07
\* and every opaque pixel has d <= 0.02.
C11_TwoBandShellWhite == ShellWithBand(Word(255, 255, 255, 128))

\* C11 witness: slices on disk holding a band pixel whose nearest point is at
\* exactly 0.07, a pixel painted with its sample's colour, and a pixel left
\* transparent because the nearest point is farther than 0.07.
C11_Witness ==
    /\ \E v \in WorkerVoxels : WorkerD2(v) = 49 /\ WorkerPixel(v) = BandColour
    /\ \E v \in WorkerVoxels : Alpha(WorkerPixel(v)) = 255
    /\ \E v \in WorkerVoxels : WorkerD2(v) > 49 /\ WorkerPixel(v) = Transparent

\* C19: with [0, depth) cut into consecutive ranges over the workers (one
\* worker with the whole range included), no path is ever written twice, a
\* written out_{z}.png holds what rendering layer z alone on a fresh image
\* gives, whatever the cut and the order of the writes, and once every worker
\* is done there is exactly one file per layer 0 .. depth - 1.
AllWorkersDone == \A w \in DOMAIN pool.workers : pool.workers[w].pc = "done"
C19_OneFilePerLayer ==
    /\ \A i, j \in DOMAIN pool.log : i # j => pool.log[i].path # pool.log[j].path
    /\ \A z \in 0 .. pool.data.depth - 1 :
           OutPath(z) \in DOMAIN files =>
               files[OutPath(z)] = RenderLayer(NewPixels(pool.data.width, pool.data.height),
                                               points, kd, pool.data, z)
    /\ AllWorkersDone =>
           /\ DOMAIN files = {OutPath(z) : z \in 0 .. pool.data.depth - 1}
           /\ Len(pool.log) = pool.data.depth

\* C19 witness: two workers with non-empty ranges are done, three layers are
\* on disk, and a later layer was written before an earlier one.
C19_Witness ==
    /\ AllWorkersDone /\ pool.data.depth = 3
    /\ \A w \in DOMAIN pool.workers : pool.workers[w].startZ < pool.workers[w].endZ
    /\ Cardinality(DOMAIN pool.workers) = 2
    /\ \E i, j \in DOMAIN pool.log : i < j /\ pool.log[i].path > pool.log[j].path
    /\ \E z \in DOMAIN files : \E i \in DOMAIN files[z] : files[z][i] # Transparent

(***************************************************************************)
(* Claims about the chamfer predicate                                      *)
(***************************************************************************)
\* the six distances with dxL and dxR, dyT and dyB, dzB and dzT changing
\* places where sx, sy, sz say so
Reflected(a, sx, sy, sz) ==
    <<IF sx THEN a[2] ELSE a[1], IF sx THEN a[1] ELSE a[2],
      IF sy THEN a[4] ELSE a[3], IF sy THEN a[3] ELSE a[4],
      IF sz THEN a[6] ELSE a[5], IF sz THEN a[5] ELSE a[6]>>

\* C12: shouldChamfer gives the same answer on the six distances and on the
\* distances after swapping dxL with dxR, dyT with dyB, dzB with dzT, in each
\* of the eight combinations.
C12_ReflectionSymmetric ==
    (probe.kind = "distances" /\ probe.called) =>
        \A sx, sy, sz \in BOOLEAN :
            LET a == Reflected(probe.args, sx, sy, sz)
            IN  shouldChamfer(a[1], a[2], a[3], a[4], a[5], a[6], probe.r) = probe.result

\* C12 witness: an evaluation that is true by the (right, bottom) edge alone,
\* on distances that differ within each of the three pairs.
C12_Witness ==
    /\ probe.kind = "distances" /\ probe.called /\ probe.result
    /\ probe.args = <<254, 0, 254, 0, 254, 81>>
    /\ probe.r = Radius(1)

\* the sides of a box in units of 1/76200 inch, and the least sum of two
SideX(b) == 254 * (b.x1 - b.x0)
SideY(b) == 254 * (b.y1 - b.y0)
SideZ(b) == 81 * (b.z1 - b.z0)
DiagonalSq(b) == SideX(b) * SideX(b) + SideY(b) * SideY(b) + SideZ(b) * SideZ(b)
TwoShortestSides(b) ==
    LET sums == {SideX(b) + SideY(b), SideX(b) + SideZ(b), SideY(b) + SideZ(b)}
    IN  CHOOSE m \in sums : \A e \in sums : m <= e
IsCentre(b, x, y, z) ==
    /\ 2 * x = b.x0 + b.x1 /\ 2 * y = b.y0 + b.y1 /\ 2 * z = b.z0 + b.z1

\* C14 as stated: when the radius exceeds half the diagonal of the box (twice
\* the radius exceeds the diagonal), the predicate is true at every voxel of
\* the box, the centre included.
C14_BeyondHalfDiagonalCarvesAll ==
    (probe.kind = "voxel" /\ probe.called
        /\ probe.r.twice * probe.r.twice > DiagonalSq(probe.bbox)) => probe.result

\* C14 as amended: when the radius exceeds half the sum of the two shortest
\* sides of the box the chamferer measures from, the predicate is true at every
\* voxel of the box, the centre included.
C14_BeyondTwoShortestSidesCarvesAll ==
    (probe.kind = "voxel" /\ probe.called
        /\ probe.r.twice > TwoShortestSides(probe.bbox)) => probe.result

\* C14 witness: the centre voxel of a box of 3 x 3 pixels in 5 layers is
\* carved at a radius just above half the sum of its two shortest sides.
C14_Witness ==
    /\ probe.kind = "voxel" /\ probe.called /\ probe.result
    /\ probe.bbox.x1 = 2 /\ probe.bbox.y1 = 2 /\ probe.bbox.z1 = 4
    /\ IsCentre(probe.bbox, probe.x, probe.y, probe.z)
    /\ probe.r = Radius(833)

(***************************************************************************)
(* Claims about filenameCompare                                            *)
(***************************************************************************)
IsOutName(n) == \E d \in LayerDigits : n = OutName(d)
\* the layer number an out_{z}.png name carries, as the whole number it writes
LayerOf(n) == Whole(SubSeq(n, 5, Len(n) - 4))
ComparedLayers ==
    /\ probe.kind = "compare" /\ probe.called
    /\ IsOutName(probe.a) /\ IsOutName(probe.b)
    /\ BigLess(LayerOf(probe.a), LayerOf(probe.b))

\* C20 as stated: for all whole numbers i < j, filenameCompare puts
\* out_{i}.png strictly before out_{j}.png (its result is negative).
C20_NumericOrder == ComparedLayers => probe.result < 0

\* C20 as amended: for all whole numbers i < j <= 2^53, the numbers Number
\* represents exactly, filenameCompare puts out_{i}.png strictly before
\* out_{j}.png.
C20_NumericOrderWhereExact ==
    (ComparedLayers /\ ~BigLess([hi |-> 90071992, lo |-> 54740992], LayerOf(probe.b)))
        => probe.result < 0

\* C20 witness: out_2.png compared with out_10.png comes out negative.
C20_Witness ==
    /\ probe.kind = "compare" /\ probe.called
    /\ probe.a = OutName(<<"2">>) /\ probe.b = OutName(<<"1", "0">>)
    /\ probe.result < 0

(***************************************************************************)
(* Claims about the chamferer                                              *)
(***************************************************************************)
PngNames == {n \in DOMAIN inDir : isPng(n)}
\* the k-th slice (from 0) of the directory in layer order
SliceOf(k) == inDir[SliceName(k)]
SliceCount == Cardinality(PngNames)
MaterialAt(k, i) == SliceOf(k).data[i][4] > 0
HasMaterial == \E k \in 0 .. SliceCount - 1 : \E i \in DOMAIN SliceOf(k).data : MaterialAt(k, i)
SizesDiffer ==
    \E n, m \in PngNames :
        inDir[n].width # inDir[m].width \/ inDir[n].height # inDir[m].height
RadiusZero == ~job.radiusInches.nan /\ job.radiusInches.twice = 0

\* C13 as stated: with radius 0 and debug off, every output slice is its
\* input slice byte for byte (the same file).
C13_RadiusZeroSameBytes ==
    (RadiusZero /\ ~job.debug) => \A n \in DOMAIN outDir : outDir[n] = inDir[n]

\* C13 as amended: with radius 0 and debug off no voxel is carved, and every
\* output slice decodes to the width, height and RGBA bytes of its input
\* slice; the file itself is encoded anew.
C13_RadiusZeroSamePixels ==
    (RadiusZero /\ ~job.debug) =>
        /\ \A n \in DOMAIN outDir :
            /\ outDir[n].width = inDir[n].width /\ outDir[n].height = inDir[n].height
            /\ outDir[n].data = inDir[n].data
        /\ \A i \in DOMAIN job.prevChamferMask : job.prevChamferMask[i] = 0

\* C13 witness: Pass 2 has run at radius 0 with debug off over three slices
\* that png.js wrote, some with material on the edges of the box.
C13_Witness ==
    /\ RadiusZero /\ ~job.debug /\ job.pc = "done" /\ ~job.bbox.null
    /\ SliceCount = 3
    /\ \A n \in PngNames : inDir[n].enc = "zlibNoCompression" /\ n \in DOMAIN outDir
    /\ \E n \in PngNames : outDir[n].data[0][4] > 0

\* C15: the box Pass 1 returns is the smallest box around the material
\* pixels: x0/x1 and y0/y1 are the least and greatest column and row of a
\* pixel with alpha > 0 in any slice, z0/z1 the least and greatest index of a
\* slice that has such a pixel.
MaterialSlices == {k \in 0 .. SliceCount - 1 : \E i \in DOMAIN SliceOf(k).data : MaterialAt(k, i)}
MaterialXs ==
    UNION {{i % SliceOf(k).width : i \in {j \in DOMAIN SliceOf(k).data : MaterialAt(k, j)}} :
            k \in 0 .. SliceCount - 1}
MaterialYs ==
    UNION {{i \div SliceOf(k).width : i \in {j \in DOMAIN SliceOf(k).data : MaterialAt(k, j)}} :
            k \in 0 .. SliceCount - 1}
C15_BBoxIsSmallestMaterialBox ==
    ~job.bbox.null =>
        /\ job.bbox.x0 = MinOf(MaterialXs) /\ job.bbox.x1 = MaxOf(MaterialXs)
        /\ job.bbox.y0 = MinOf(MaterialYs) /\ job.bbox.y1 = MaxOf(MaterialYs)
        /\ job.bbox.z0 = MinOf(MaterialSlices) /\ job.bbox.z1 = MaxOf(MaterialSlices)

\* C16: once Pass 1 has returned, processFolder is on its copy branch exactly
\* when no pixel of any slice has alpha > 0; on that branch every file written
\* is its input file unchanged, under the same name, and at the end all slices
\* are there; otherwise every file written was encoded by Pass 2, and at the
\* end all slices are there.
C16_CopiesExactlyWhenNoMaterial ==
    job.pc \in {"copy", "pass2", "done"} =>
        /\ (job.bbox.null) <=> ~HasMaterial
        /\ job.bbox.null => \A n \in DOMAIN outDir : outDir[n] = inDir[n]
        /\ ~job.bbox.null => \A n \in DOMAIN outDir : outDir[n].enc = "compressionLevel9"
        /\ DOMAIN outDir \subseteq PngNames
        /\ job.pc = "done" => DOMAIN outDir = PngNames

\* C16 witness: three slices with no material, written by png.js, have all
\* been copied.
C16_Witness ==
    /\ job.pc = "done" /\ job.bbox.null /\ SliceCount = 3
    /\ \A n \in PngNames : n \in DOMAIN outDir /\ outDir[n].enc = "zlibNoCompression"

\* C17: when the radius is negative or NaN, or the directory has no PNG, or
\* two slices differ in width or height, processFolder gets no further than
\* its checks and Pass 1, ends failed, and writes nothing.
C17_FailsBeforeWriting ==
    /\ (job.radiusInches.nan \/ job.radiusInches.twice < 0 \/ PngNames = {})
            => job.pc \in {"start", "failed"}
    /\ SizesDiffer => job.pc \in {"start", "pass1", "failed"}
    /\ job.pc = "failed" =>
        /\ DOMAIN outDir = {}
        /\ job.error \in {"InvalidRadius", "NoPNGInputs", "DimensionMismatch"}

\* C17 witness: Pass 1 has thrown on the third slice, wider than the first
\* two, and nothing was written.
C17_Witness ==
    /\ job.pc = "failed" /\ job.error = "DimensionMismatch" /\ SliceCount = 3
    /\ SliceOf(2).width # SliceOf(0).width /\ SliceOf(1).width = SliceOf(0).width
    /\ DOMAIN outDir = {}

(***************************************************************************)
(* Claims about PLY ingestion.  The facts about the file below are read    *)
(* off its header lines, not off what parseHeader made of them.            *)
(***************************************************************************)
VertexLines ==
    {k \in 1 .. Len(ply.file.lines) :
         /\ ply.file.lines[k].kind = "element"
         /\ ply.file.lines[k].name = "vertex"}
VertexAbsent == VertexLines = {}
DeclaredCount == ply.file.lines[CHOOSE k \in VertexLines : TRUE].count
DeclaresCoordinate(c) ==
    \E v \in VertexLines, k \in 1 .. Len(ply.file.lines) :
        /\ v < k
        /\ ply.file.lines[k].kind = "property"
        /\ ply.file.lines[k].name = c
        /\ \A j \in v + 1 .. k - 1 : ply.file.lines[j].kind # "element"
RejectedHeader ==
    \/ ~ply.file.end
    \/ ply.file.format \notin {"ascii", "binary_little_endian"}
    \/ VertexAbsent
    \/ DeclaredCount = <<"0">>
    \/ \E c \in Coordinates : ~DeclaresCoordinate(c)
ConstructionOver == ply.pc \in {"constructed", "thrown"}

\* C18: constructing a PLY throws, leaving no point store and no index, when
\* the header lacks end_header, when the format is neither ascii nor
\* binary_little_endian, when the vertex element is absent or has count 0, or
\* when one of x, y, z is not declared among the vertex properties; and a
\* PLY that was constructed holds exactly the declared vertex count of
\* points, which is greater than 0.
C18_FailsOrStoresDeclaredCount ==
    ConstructionOver =>
        /\ RejectedHeader =>
               ply.pc = "thrown" /\ ply.points = <<>> /\ ply.kdRoot = "none"
        /\ ply.pc = "constructed" =>
               \E n \in 1 .. MaxVertices :
                   DeclaredCount = Decimal(n) /\ Len(ply.points) = n

(***************************************************************************)
(* Claims about the order of processFolder                                 *)
(***************************************************************************)
InPass2 == job.pc = "pass2" \/ (job.pc = "done" /\ ~job.bbox.null)
Written(k) == SliceName(k) \in DOMAIN outDir
CarvedIn(k, i) ==
    /\ inDir[SliceName(k)].data[i][4] > 0
    /\ outDir[SliceName(k)].data[i][4] = 0

\* C21: Pass 1 has returned its box before any slice is written; the slices
\* are written one at a time in ascending index order (when slice zi is next,
\* exactly the slices 0 .. zi - 1 are written); and the previous-mask argument
\* of slice zi is null for slice 0 and otherwise is 1 exactly at the voxels
\* carved in slice zi - 1.
C21_PassOrderAndPrevMask ==
    /\ (job.pc \in {"start", "pass1"} => DOMAIN outDir = {})
    /\ (InPass2 =>
          /\ job.bbox = computeGlobalBBox(inDir, job.names)
          /\ \A k \in 0 .. SliceCount - 1 : Written(k) <=> k < job.zi
          /\ (job.zi = 0 => job.prevChamferMask = NullMask)
          /\ (job.zi > 0 =>
                /\ job.prevChamferMask # NullMask
                /\ \A i \in DOMAIN job.prevChamferMask :
                      job.prevChamferMask[i] = 1 <=> CarvedIn(job.zi - 1, i)))

C21_Witness ==
    /\ job.pc = "pass2" /\ job.zi = 2
    /\ \E i \in DOMAIN job.prevChamferMask : job.prevChamferMask[i] = 1
    /\ \E i \in DOMAIN job.prevChamferMask : job.prevChamferMask[i] = 0

(***************************************************************************)
(* Claims about the debug overlay.  No input pixel of the model is opaque  *)
(* black, so a pixel that is opaque black in an output slice was painted   *)
(* by the overlay.                                                         *)
(***************************************************************************)
MarkedIn(k, i) == Written(k) /\ outDir[SliceName(k)].data[i] = Black
FourNeighbours(i, w, h) ==
    {j \in 0 .. w * h - 1 :
        \/ j \div w = i \div w /\ (j = i + 1 \/ j = i - 1)
        \/ j % w = i % w /\ (j = i + w \/ j = i - w)}
PredicateAt(k, i) ==
    ChamferAt(precomputeXYInches(job.bbox, job.bbox.width, job.bbox.height),
              precomputeZInches(job.bbox, SliceCount).dzB[k],
              precomputeZInches(job.bbox, SliceCount).dzT[k],
              i % job.bbox.width, i \div job.bbox.width, job.radiusInches)

\* C22: with debug on, every pixel the overlay painted opaque black is a
\* 4-neighbour, inside the image, of a carved voxel of its slice, does not
\* satisfy the chamfer predicate itself, and is a material pixel of the input
\* slice (alpha > 0).
C22_MarkIsMaterialNeighbour ==
    (InPass2 /\ job.debug) =>
        \A k \in 0 .. SliceCount - 1 : \A i \in DOMAIN SliceOf(k).data :
            MarkedIn(k, i) =>
                /\ \E j \in FourNeighbours(i, job.bbox.width, job.bbox.height) :
                       CarvedIn(k, j)
                /\ ~PredicateAt(k, i)
                /\ MaterialAt(k, i)

(***************************************************************************)
(* Claims about the shape of the k-d tree                                  *)
(***************************************************************************)
RECURSIVE Subtree(_)
Subtree(n) ==
    IF n = NULL THEN {}
    ELSE {n} \cup Subtree(kd.nodes[n].left) \cup Subtree(kd.nodes[n].right)
DepthOf(n) == Cardinality({m \in DOMAIN kd.nodes : n \in Subtree(m)}) - 1
NodeCoord(n, axis) == coord(points[kd.nodes[n].p], axis)
AxisCycles == \A n \in DOMAIN kd.nodes : kd.nodes[n].axis = DepthOf(n) % 3
RightNotLess ==
    \A n \in DOMAIN kd.nodes : \A m \in Subtree(kd.nodes[n].right) :
        NodeCoord(m, kd.nodes[n].axis) >= NodeCoord(n, kd.nodes[n].axis)

\* C23 as stated: every node at depth d splits on axis d mod 3, every point of
\* its left subtree is strictly less than the node on that axis, and every
\* point of its right subtree is greater than or equal to it.
C23_LeftStrictlyLess ==
    /\ AxisCycles
    /\ RightNotLess
    /\ \A n \in DOMAIN kd.nodes : \A m \in Subtree(kd.nodes[n].left) :
           NodeCoord(m, kd.nodes[n].axis) < NodeCoord(n, kd.nodes[n].axis)

\* C23 amended: every node at depth d splits on axis d mod 3, every point of
\* its left subtree is less than or equal to the node on that axis, and every
\* point of its right subtree is greater than or equal to it.
C23_LeftNotGreater ==
    /\ AxisCycles
    /\ RightNotLess
    /\ \A n \in DOMAIN kd.nodes : \A m \in Subtree(kd.nodes[n].left) :
           NodeCoord(m, kd.nodes[n].axis) <= NodeCoord(n, kd.nodes[n].axis)

\* a tree of three nodes whose root has a left child equal to it on x and a
\* right child greater than it on x
C23_Witness ==
    /\ Cardinality(DOMAIN kd.nodes) = 3
    /\ LET n == kd.root
       IN  /\ kd.nodes[n].left # NULL /\ kd.nodes[n].right # NULL
           /\ NodeCoord(kd.nodes[n].left, 0) = NodeCoord(n, 0)
           /\ NodeCoord(kd.nodes[n].right, 0) > NodeCoord(n, 0)

(***************************************************************************)
(* Claims about the order of the traversal.  nn.result.visited lists the   *)
(* nodes in the order nearestPoint popped them.                            *)
(***************************************************************************)
Visited == {nn.result.visited[i] : i \in DOMAIN nn.result.visited}
VisitOf(n) == CHOOSE i \in DOMAIN nn.result.visited : nn.result.visited[i] = n
AxisActive(n) == And(maskFromAxes(nn.opts.axes), 2 ^ kd.nodes[n].axis) # 0
DiffAt(n) ==
    coord(nn.target, kd.nodes[n].axis) - NodeCoord(n, kd.nodes[n].axis)
NearOf(n) == IF DiffAt(n) < 0 THEN kd.nodes[n].left ELSE kd.nodes[n].right
FarOf(n) == IF DiffAt(n) < 0 THEN kd.nodes[n].right ELSE kd.nodes[n].left

\* C24: at a visited node whose axis is active, every visited node of the
\* near child's subtree is visited before every visited node of the far
\* child's subtree.
C24_NearSubtreeFirst ==
    nn.called =>
        \A n \in Visited :
            AxisActive(n) =>
                \A a \in Subtree(NearOf(n)) \cap Visited :
                    \A b \in Subtree(FarOf(n)) \cap Visited :
                        VisitOf(a) < VisitOf(b)

(***************************************************************************)
(* Claims about the reuse of the slice image                               *)
(***************************************************************************)
\* layer z rendered on an image of its own, fresh from the constructor: the
\* flood fill from the middle, then the voxels in the order of the loops
RECURSIVE VoxelsFrom(_, _, _)
VoxelsFrom(px, k, z) ==
    IF k >= width * height THEN px
    ELSE VoxelsFrom(Sampled(px, points, kd, cfg, dims, k \div height, k % height, z),
                    k + 1, z)
LayerAlone(z) ==
    VoxelsFrom(floodFillFrom(NewPixels(width, height), width, height,
                             width \div 2, height \div 2, InteriorFill).pixels,
               0, z)

\* C25: at the start of every layer iteration every pixel of the reused image
\* is (0,0,0,0), and every layer, once written, is what it would be had it
\* been the only layer rendered.
C25_BlankAtLayerStart ==
    /\ at.pc = "layer" => \A i \in DOMAIN pixels : pixels[i] = Transparent
    /\ (at.pc \in {"layer", "done"} /\ at.z > 0) =>
           files[at.z - 1] = LayerAlone(at.z - 1)

\* the second layer is about to begin and a point was painted on the first,
\* which the second layer alone does not show at that pixel
C25_Witness ==
    /\ at.pc = "layer" /\ at.z = 1
    /\ \E i \in DOMAIN pixels :
           /\ files[0][i] \notin {Transparent, InteriorFill}
           /\ LayerAlone(1)[i] # files[0][i]

(***************************************************************************)
(* Claims about the zlib stream                                            *)
(***************************************************************************)
LenOf(block) == block.lenLE[1] + 256 * block.lenLE[2]
NLenOf(block) == block.nlenLE[1] + 256 * block.nlenLE[2]

\* C26: in the written stream every stored block has LEN between 1 and 65535
\* and NLEN = 65535 - LEN (the 16-bit one's complement), exactly the last
\* block has BFINAL = 1, and the payloads, in order, are the scanline data
\* from its first byte to its last with nothing left out or repeated.
C26_StoredBlocksTileScanlines ==
    (probe.kind = "flush" /\ probe.pc = "written") =>
        /\ Len(probe.blocks) >= 1
        /\ \A k \in DOMAIN probe.blocks :
              /\ LenOf(probe.blocks[k]) \in 1 .. 65535
              /\ NLenOf(probe.blocks[k]) = 65535 - LenOf(probe.blocks[k])
              /\ probe.blocks[k].header = 1 <=> k = Len(probe.blocks)
              /\ probe.blocks[k].header \in {0, 1}
              /\ probe.blocks[k].to - probe.blocks[k].from = LenOf(probe.blocks[k])
              /\ probe.blocks[k].from =
                     IF k = 1 THEN 0 ELSE probe.blocks[k - 1].to
        /\ probe.blocks[Len(probe.blocks)].to
               = probe.height * (1 + 4 * probe.width)

\* a stream of three blocks, the last one shorter than the others
C26_Witness ==
    /\ probe.kind = "flush" /\ probe.pc = "written"
    /\ Len(probe.blocks) = 3
    /\ LenOf(probe.blocks[1]) = 65535
    /\ LenOf(probe.blocks[3]) < 65535

(***************************************************************************)
(* Claims about the single-point cloud                                     *)
(***************************************************************************)
SinglePoint == Cardinality(DOMAIN points) = 1 /\ cfg.variant = "index"
PointWord == Word(points[0].r, points[0].g, points[0].b, 255)

\* C27: for a cloud of a single coloured point rasterized by index.js, every
\* layer written has exactly one pixel of the point's colour with alpha 255.
C27_SinglePointSinglePixel ==
    SinglePoint =>
        \A z \in DOMAIN files :
            Cardinality({i \in DOMAIN files[z] : files[z][i] = PointWord}) = 1

(***************************************************************************)
(* Claims about the corner tests of the predicate                          *)
(***************************************************************************)
\* the six distances of the evaluation, in the order dxL, dxR, dyT, dyB, dzB,
\* dzT, as whole numbers of 1/76200 inch
SixDistances ==
    IF probe.kind = "distances" THEN probe.args
    ELSE <<(probe.x - probe.bbox.x0) * 254, (probe.bbox.x1 - probe.x) * 254,
           (probe.y - probe.bbox.y0) * 254, (probe.bbox.y1 - probe.y) * 254,
           (probe.z - probe.bbox.z0) * 81, (probe.bbox.z1 - probe.z) * 81>>
EdgePairs ==
    {<<1, 3>>, <<2, 3>>, <<1, 4>>, <<2, 4>>,
     <<6, 1>>, <<6, 2>>, <<6, 3>>, <<6, 4>>,
     <<5, 1>>, <<5, 2>>, <<5, 3>>, <<5, 4>>}
CornerTriples == {<<z, x, y>> : z \in {5, 6}, x \in {1, 2}, y \in {3, 4}}
SomeEdgeBelow ==
    /\ ~probe.r.nan
    /\ \E e \in EdgePairs :
           2 * (SixDistances[e[1]] + SixDistances[e[2]]) < probe.r.twice
SomeCornerBelow ==
    /\ ~probe.r.nan
    /\ \E c \in CornerTriples :
           2 * (SixDistances[c[1]] + SixDistances[c[2]] + SixDistances[c[3]])
               < probe.r.twice

\* C28: on six non-negative distances shouldChamfer is true exactly when one
\* of the twelve edge pair sums is less than r; the eight corner triples
\* change nothing.
C28_EdgePairsDecide ==
    (probe.kind \in {"distances", "voxel"} /\ probe.called) =>
        /\ \A k \in 1 .. 6 : SixDistances[k] >= 0
        /\ probe.result = SomeEdgeBelow

\* an evaluation in which a corner triple is below r, on distances that
\* are all positive
C28_Witness ==
    /\ probe.kind = "distances" /\ probe.called
    /\ SomeCornerBelow /\ probe.result
    /\ \A k \in 1 .. 6 : SixDistances[k] > 0

(***************************************************************************)
(* Claims about what chamferSlice changes                                  *)
(***************************************************************************)
InsideBox(i) ==
    /\ i % job.bbox.width \in job.bbox.x0 .. job.bbox.x1
    /\ i \div job.bbox.width \in job.bbox.y0 .. job.bbox.y1
ToCarve(k, i) == InsideBox(i) /\ MaterialAt(k, i) /\ PredicateAt(k, i)
AlphaZeroed(word) == <<word[1], word[2], word[3], 0>>

\* C29: with debug off, every written slice differs from its input only at
\* the voxels that are inside the box, have alpha > 0 in the input and
\* satisfy the predicate, and there only in the alpha byte, which is 0; and
\* the mask returned for a slice is 1 exactly at those voxels.
C29_OnlyAlphaOfCarved ==
    (InPass2 /\ ~job.debug) =>
        /\ \A k \in 0 .. SliceCount - 1 : Written(k) =>
              /\ outDir[SliceName(k)].width = SliceOf(k).width
              /\ outDir[SliceName(k)].height = SliceOf(k).height
              /\ \A i \in DOMAIN SliceOf(k).data :
                    outDir[SliceName(k)].data[i] =
                        IF ToCarve(k, i) THEN AlphaZeroed(SliceOf(k).data[i])
                        ELSE SliceOf(k).data[i]
        /\ job.zi > 0 =>
              \A i \in DOMAIN job.prevChamferMask :
                  job.prevChamferMask[i] = IF ToCarve(job.zi - 1, i) THEN 1 ELSE 0

\* a slice written with debug off in which one voxel was carved, one material
\* voxel was not, and one pixel was transparent from the start
C29_Witness ==
    /\ InPass2 /\ ~job.debug
    /\ \E k \in 0 .. SliceCount - 1 :
          /\ Written(k)
          /\ \E i \in DOMAIN SliceOf(k).data : ToCarve(k, i)
          /\ \E i \in DOMAIN SliceOf(k).data : MaterialAt(k, i) /\ ~ToCarve(k, i)
          /\ \E i \in DOMAIN SliceOf(k).data : ~MaterialAt(k, i)

(***************************************************************************)
(* Claims about the termination of the flood fill                          *)
(***************************************************************************)
TargetPixels == {i \in DOMAIN pixels : pixels[i] = call.target}
FillSkipped == pixels' = pixels /\ Len(call'.stack) = Len(call.stack) - 1
FillProgressed ==
    /\ Cardinality({i \in DOMAIN pixels' : pixels'[i] = call.target})
           < Cardinality(TargetPixels)
    /\ \A k \in DOMAIN call'.stack : pixels'[call'.stack[k]] = call.target
           \/ \E j \in DOMAIN call.stack : call.stack[j] = call'.stack[k]

\* C30: every call of floodFillFrom returns; and every pass of its loop
\* either skips the entry it popped, leaving the pixels as they are, or
\* leaves fewer pixels of the target colour than before and pushes only
\* pixels that still hold the target colour.
C30_FloodFillTerminates ==
    /\ <>(call.op = "returned")
    /\ [][(call.op = "loop" /\ call'.op = "loop" /\ call.stack # <<>>)
              => (FillSkipped \/ FillProgressed)]_vars

\* a call that has returned after filling pixels of more than one row
C30_Witness ==
    /\ call.op = "returned"
    /\ call.filled >= 4
    /\ height >= 2 /\ width >= 2
    /\ \E i \in DOMAIN pixels : pixels[i] # call.fill

====
